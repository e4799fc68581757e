----------------------- MODULE CacheMissTopkKernelProofs -----------------------
(***************************************************************************)
(* Theorems about one launch of the kernel, for any batch and any number   *)
(* of cores: no row is in two hands, the loop over the columns selects     *)
(* what the comment says, and every row has been extended at the end.      *)
(***************************************************************************)
EXTENDS CacheMissTopkKernel, TopkMasksProofs, BatchTilingProofs, SequenceTheorems,
        WellFoundedInduction, TLAPS

\* What the launch fits in: the tiling does not wrap.
Fits == /\ MaxBatch \in Nat /\ MaxCoreNum \in Nat
        /\ MaxBatch + MaxCoreNum <= Word /\ 2 * MaxBatch <= Word

-----------------------------------------------------------------------------
(* The shares of the blocks.                                               *)

Share(c)  == BlockBatches(tiling, c)
Row(c, j) == BatchIdx(tiling, c, j)

\* The tiling covers the batch.
Tiled ==
    /\ TilingFits(tiling)
    /\ BlockDim(tiling) = tiling.formerNum + 1 /\ UsedCoreNum(tiling) = tiling.formerNum + 1
    /\ inputs \in [0 .. tiling.batchSize - 1 -> RowInputs]
    /\ tiling.batchSize \in 1 .. MaxBatch

LEMMA BatchIs ==
    ASSUME Tiled
    PROVE  Batch = 0 .. tiling.batchSize - 1 /\ Block = 0 .. tiling.formerNum
    BY DEF Tiled, TilingFits, Batch, BatchOf, Block

LEMMA InitTiled ==
    ASSUME Fits, Init
    PROVE  Tiled
<1>1. PICK B \in 1 .. MaxBatch, C \in 1 .. MaxCoreNum :
          inputs \in [0 .. B - 1 -> RowInputs] /\ tiling = Tiling(B, C)
    BY DEF Init
<1>2. B \in Nat \ {0} /\ C \in Nat \ {0} /\ B + C <= Word /\ 2 * B <= Word
    BY WordAssumption DEF Fits
<1>3. /\ TilingFits(tiling) /\ BlockDim(tiling) = UsedCoreNum(tiling)
      /\ tiling.batchSize = B
    BY <1>1, <1>2, TilingCovers
<1>4. UsedCoreNum(tiling) = tiling.formerNum + 1
    <2>1. /\ tiling.formerNum + 1 \in Nat /\ tiling.formerNum + 1 < Word
          /\ tiling.tailNum = 1
        BY <1>3 DEF TilingFits
    <2> QED
        BY <2>1, NoWrap DEF UsedCoreNum
<1> QED
    BY <1>1, <1>3, <1>4 DEF Tiled

\* Row j of block c is no other row of any block, and every row is one.
LEMMA Shares ==
    ASSUME Tiled
    PROVE  /\ \A c \in Block : Share(c) \in Nat \ {0}
           /\ \A c \in Block : \A j \in 0 .. Share(c) - 1 : Row(c, j) \in Batch
           /\ \A c, d \in Block : \A j \in 0 .. Share(c) - 1, l \in 0 .. Share(d) - 1 :
                 Row(c, j) = Row(d, l) => c = d /\ j = l
           /\ \A r \in Batch : \E c \in Block : \E j \in 0 .. Share(c) - 1 : r = Row(c, j)
<1> DEFINE F == tiling.formerLength
<1>1. /\ TilingFits(tiling) /\ F \in Nat \ {0} /\ tiling.formerNum \in Nat
      /\ Batch = 0 .. tiling.batchSize - 1 /\ Block = 0 .. tiling.formerNum
    BY BatchIs DEF Tiled, TilingFits
<1>2. ASSUME NEW c \in Block
      PROVE  /\ Share(c) \in 1 .. F
             /\ BlockRows(tiling, c) = F * c .. F * c + Share(c) - 1
             /\ \A j \in 0 .. Share(c) - 1 : Row(c, j) = F * c + j
    BY <1>1, BlockRowsAre DEF Share, Row
<1>3. /\ UNION {BlockRows(tiling, c) : c \in Block} = Batch
      /\ \A c, d \in Block : c # d => BlockRows(tiling, c) \cap BlockRows(tiling, d) = {}
    BY <1>1, BlocksPartitionBatch
<1> HIDE DEF F
<1>4. \A c \in Block : Share(c) \in Nat \ {0} /\ F * c \in Nat
    <2>1. \A c \in Block : c \in Nat
        BY <1>1
    <2> QED
        BY <1>1, <1>2, <2>1
<1>5. ASSUME NEW c \in Block, NEW j \in 0 .. Share(c) - 1
      PROVE  Row(c, j) \in BlockRows(tiling, c)
    <2>1. Row(c, j) = F * c + j /\ F * c \in Nat /\ Share(c) \in Nat
        BY <1>2, <1>4
    <2>2. F * c + j \in F * c .. F * c + Share(c) - 1
        BY <2>1
    <2> QED
        BY <1>2, <2>1, <2>2
<1>6. ASSUME NEW c \in Block, NEW j \in 0 .. Share(c) - 1
      PROVE  Row(c, j) \in Batch
    BY <1>3, <1>5
<1>7. ASSUME NEW c \in Block, NEW d \in Block,
             NEW j \in 0 .. Share(c) - 1, NEW l \in 0 .. Share(d) - 1, Row(c, j) = Row(d, l)
      PROVE  c = d /\ j = l
    <2>1. c = d
        BY <1>3, <1>5, <1>7
    <2>2. F * c + j = F * c + l /\ F * c \in Nat /\ j \in Int /\ l \in Int
        BY <1>2, <1>4, <1>7, <2>1
    <2> QED
        BY <2>1, <2>2
<1>8. ASSUME NEW r \in Batch
      PROVE  \E c \in Block : \E j \in 0 .. Share(c) - 1 : r = Row(c, j)
    <2>1. PICK c \in Block : r \in BlockRows(tiling, c)
        BY <1>3
    <2>2. r \in F * c .. F * c + Share(c) - 1 /\ F * c \in Nat /\ Share(c) \in Nat
        BY <1>2, <1>4, <2>1
    <2>3. r - F * c \in 0 .. Share(c) - 1 /\ F * c + (r - F * c) = r
        BY <2>2
    <2>4. Row(c, r - F * c) = r
        BY <1>2, <2>3
    <2> QED
        BY <2>3, <2>4
<1> QED
    BY <1>4, <1>6, <1>7, <1>8


-----------------------------------------------------------------------------
(* Where the blocks are, and which rows they have done.                    *)

Labels == {"entered", "loop", "loaded", "counted", "done"}
Copy   == [buffer : 0 .. BUFFER_NUM - 1, row : Batch]

\* A block at label p that is past n rows of its share and whose copies cs are
\* under way: they are those of its last rows, in order.
At(t, c, p, n, cs) ==
    /\ n \in 0 .. BlockBatches(t, c) /\ Len(cs) <= n
    /\ \A k \in 1 .. Len(cs) : cs[k].row = BatchIdx(t, c, n - Len(cs) + k - 1)
    /\ p \in {"loaded", "counted"} => n < BlockBatches(t, c)
    /\ p = "done" => n = BlockBatches(t, c)

\* The rows of block c whose copies have landed are its first ones.
Landed(c) == b[c] - Len(copies[c])

Controlled ==
    /\ Tiled
    /\ pc \in [Block -> Labels] /\ b \in [Block -> Nat] /\ copies \in [Block -> Seq(Copy)]
    /\ \A c \in Block : At(tiling, c, pc[c], b[c], copies[c])
    /\ written \subseteq Batch
    /\ \A c \in Block : \A j \in 0 .. Share(c) - 1 : Row(c, j) \in written <=> j < Landed(c)

\* The launch is the same throughout.
LEMMA SameLaunch ==
    ASSUME UNCHANGED gm
    PROVE  /\ Block' = Block /\ Batch' = Batch /\ (Tiled => Tiled') /\ Copy' = Copy
           /\ \A c : Share(c)' = Share(c) /\ \A j : Row(c, j)' = Row(c, j)
           /\ tiling' = tiling
<1>1. tiling' = tiling /\ inputs' = inputs
    BY DEF gm
<1>2. Block' = Block /\ Batch' = Batch /\ (Tiled => Tiled')
    BY <1>1 DEF Block, Batch, BatchOf, Tiled
<1>3. \A c : Share(c)' = Share(c) /\ \A j : Row(c, j)' = Row(c, j)
    BY <1>1 DEF Share, Row
<1> QED
    BY <1>1, <1>2, <1>3 DEF Copy

\* A block goes on within its loop; loaded rows are of its share.
LEMMA GotoControlled ==
    ASSUME Controlled, NEW c \in Block, NEW l \in Labels, Goto(c, l),
           l \in {"loaded", "counted"} => b[c] < Share(c),
           l = "done" => b[c] = Share(c),
           UNCHANGED <<gm, b, copies, written>>
    PROVE  Controlled'
<1>1. /\ Tiled' /\ Block' = Block /\ Batch' = Batch /\ Copy' = Copy
      /\ \A d : Share(d)' = Share(d) /\ \A j : Row(d, j)' = Row(d, j)
    BY SameLaunch DEF Controlled
<1>2. pc' = [pc EXCEPT ![c] = l] /\ pc \in [Block -> Labels]
    BY DEF Goto, Controlled
<1>3. pc' \in [Block -> Labels] /\ \A d \in Block : pc'[d] = IF d = c THEN l ELSE pc[d]
    BY <1>2
<1>4. ASSUME NEW d \in Block
      PROVE  At(tiling, d, pc'[d], b[d], copies[d])
    BY <1>3 DEF Controlled, At, Share, Row
<1>5. \A d \in Block : At(tiling', d, pc'[d], b'[d], copies'[d])
    BY <1>4, SameLaunch
<1>6. Landed(c)' = Landed(c) /\ \A d : Landed(d)' = Landed(d)
    BY DEF Landed
<1> QED
    BY <1>1, <1>3, <1>5, <1>6 DEF Controlled

LEMMA EnterControlled ==
    ASSUME Controlled, NEW c \in Block, EnterProcess(c)
    PROVE  Controlled'
<1>1. ~(c >= UsedCoreNum(tiling))
    BY BatchIs DEF Controlled, Tiled, TilingFits
<1>2. Goto(c, "loop") /\ UNCHANGED <<gm, b, copies, written>>
    BY <1>1 DEF EnterProcess
<1> QED
    BY <1>2, GotoControlled DEF Labels

LEMMA LeaveControlled ==
    ASSUME Controlled, NEW c \in Block, LeaveProcess(c)
    PROVE  Controlled'
<1>1. /\ Goto(c, "done") /\ UNCHANGED <<gm, b, copies, written>>
      /\ b[c] >= Share(c) \/ Row(c, b[c]) >= tiling.batchSize
    BY DEF LeaveProcess, Share, Row
<1>2. b[c] \in 0 .. Share(c) /\ Share(c) \in Nat
    BY Shares DEF Controlled, At, Share, Row
<1>3. b[c] = Share(c)
    <2> SUFFICES ASSUME b[c] # Share(c) PROVE FALSE
        OBVIOUS
    <2>1. b[c] \in 0 .. Share(c) - 1
        BY <1>2
    <2>2. Row(c, b[c]) \in 0 .. tiling.batchSize - 1 /\ tiling.batchSize \in Nat
        BY <2>1, Shares, BatchIs DEF Controlled, Tiled, TilingFits
    <2> QED
        BY <1>1, <1>2, <2>1, <2>2
<1> QED
    BY <1>1, <1>3, GotoControlled DEF Labels

LEMMA LoadControlled ==
    ASSUME Controlled, NEW c \in Block, LoadRow(c)
    PROVE  Controlled' /\ b[c] \in 0 .. Share(c) - 1
<1>1. /\ Goto(c, "loaded") /\ UNCHANGED <<gm, b, copies, written>>
      /\ b[c] < Share(c)
    BY DEF LoadRow, Share
<1>2. b[c] \in 0 .. Share(c) - 1
    BY <1>1, Shares DEF Controlled, At, Share, Row
<1> QED
    BY <1>1, <1>2, GotoControlled DEF Labels

LEMMA CountControlled ==
    ASSUME Controlled, NEW c \in Block, CountRow(c)
    PROVE  Controlled'
<1>1. Goto(c, "counted") /\ UNCHANGED <<gm, b, copies, written>> /\ pc[c] = "loaded"
    BY DEF CountRow
<1>2. b[c] < Share(c)
    BY <1>1 DEF Controlled, At, Share, Row
<1> QED
    BY <1>1, <1>2, GotoControlled DEF Labels

\* The row that was scanned joins the copies of the block at the end.
LEMMA ScanControlled ==
    ASSUME Controlled, NEW c \in Block, ScanRow(c)
    PROVE  Controlled'
<1> DEFINE copy == [buffer |-> ResultBuffer(c), row |-> Row(c, b[c])]
           n == b[c] + 1
           cs == Append(copies[c], copy)
<1>1. /\ pc[c] = "counted" /\ pc' = [pc EXCEPT ![c] = "loop"]
      /\ b' = [b EXCEPT ![c] = @ + 1] /\ copies' = [copies EXCEPT ![c] = Append(@, copy)]
      /\ UNCHANGED <<gm, written>>
    BY DEF ScanRow, FillAndCopyOut, Goto, Row
<1>2. /\ Tiled' /\ Block' = Block /\ Batch' = Batch /\ Copy' = Copy
      /\ \A d : Share(d)' = Share(d) /\ \A j : Row(d, j)' = Row(d, j)
    BY <1>1, SameLaunch DEF Controlled
<1>3. /\ pc \in [Block -> Labels] /\ b \in [Block -> Nat] /\ copies \in [Block -> Seq(Copy)]
      /\ \A d \in Block : At(tiling, d, pc[d], b[d], copies[d])
    BY DEF Controlled
<1>4. /\ b[c] \in 0 .. Share(c) - 1 /\ Share(c) \in Nat /\ b[c] \in Nat
      /\ copies[c] \in Seq(Copy) /\ Len(copies[c]) \in Nat /\ Len(copies[c]) <= b[c]
      /\ \A k \in 1 .. Len(copies[c]) :
            copies[c][k].row = Row(c, b[c] - Len(copies[c]) + k - 1)
    BY <1>1, <1>3, Shares DEF Controlled, At, Share, Row
<1>5. copy \in Copy
    <2>1. b[c] % BUFFER_NUM \in 0 .. BUFFER_NUM - 1
        BY <1>4, BufferNumAssumption
    <2>2. Row(c, b[c]) \in Batch
        BY <1>4, Shares DEF Controlled
    <2> QED
        BY <2>1, <2>2 DEF ResultBuffer, Copy
<1>6. copy.row = Row(c, b[c])
    OBVIOUS
<1> HIDE DEF copy
<1>7. /\ cs \in Seq(Copy) /\ Len(cs) = Len(copies[c]) + 1
      /\ \A k \in 1 .. Len(copies[c]) : cs[k] = copies[c][k]
      /\ cs[Len(copies[c]) + 1] = copy
    BY <1>4, <1>5
<1>8. /\ pc' \in [Block -> Labels] /\ b' \in [Block -> Nat] /\ copies' \in [Block -> Seq(Copy)]
      /\ \A d \in Block : d # c => pc'[d] = pc[d] /\ b'[d] = b[d] /\ copies'[d] = copies[d]
      /\ pc'[c] = "loop" /\ b'[c] = n /\ copies'[c] = cs
    BY <1>1, <1>3, <1>4, <1>7 DEF Labels
<1> HIDE DEF cs
<1>9. At(tiling, c, "loop", n, cs)
    <2>1. n \in 0 .. Share(c) /\ Len(cs) <= n /\ n - Len(cs) = b[c] - Len(copies[c])
        BY <1>4, <1>7
    <2>2. ASSUME NEW k \in 1 .. Len(cs)
          PROVE  cs[k].row = Row(c, n - Len(cs) + k - 1)
        <3>1. CASE k = Len(copies[c]) + 1
            <4>1. b[c] - Len(copies[c]) + k - 1 = b[c]
                BY <1>4, <3>1
            <4>2. n - Len(cs) + k - 1 = b[c]
                BY <2>1, <4>1
            <4> QED
                BY <1>6, <1>7, <3>1, <4>2
        <3>2. CASE k # Len(copies[c]) + 1
            <4>1. k \in 1 .. Len(copies[c])
                BY <1>4, <1>7, <3>2
            <4>2. cs[k].row = Row(c, b[c] - Len(copies[c]) + k - 1)
                BY <1>4, <1>7, <4>1
            <4> QED
                BY <2>1, <4>2
        <3> QED
            BY <3>1, <3>2
    <2> QED
        BY <2>1, <2>2 DEF At, Share, Row
<1>10. \A d \in Block : At(tiling, d, pc'[d], b'[d], copies'[d])
    BY <1>3, <1>8, <1>9
<1>11. \A d \in Block : At(tiling', d, pc'[d], b'[d], copies'[d])
    BY <1>1, <1>10, SameLaunch
<1>12. \A d \in Block : Landed(d)' = Landed(d)
    <2>1. n - Len(cs) = b[c] - Len(copies[c])
        BY <1>4, <1>7
    <2> HIDE DEF n
    <2> QED
        BY <1>8, <2>1 DEF Landed
<1> QED
    BY <1>1, <1>2, <1>8, <1>11, <1>12 DEF Controlled

\* The copy that lands is that of the first row that had not.
LEMMA FinishControlled ==
    ASSUME Controlled, NEW c \in Block, FinishCopy(c)
    PROVE  /\ Controlled'
           /\ Landed(c) \in 0 .. Share(c) - 1 /\ copies[c][1].row = Row(c, Landed(c))
           /\ written' = written \cup {Row(c, Landed(c))} /\ Row(c, Landed(c)) \notin written
<1>1. /\ copies[c] # <<>> /\ written' = written \cup {Head(copies[c]).row}
      /\ copies' = [copies EXCEPT ![c] = Tail(@)]
      /\ UNCHANGED <<gm, pc, b>>
    BY DEF FinishCopy
<1>2. /\ Tiled' /\ Block' = Block /\ Batch' = Batch /\ Copy' = Copy
      /\ \A d : Share(d)' = Share(d) /\ \A j : Row(d, j)' = Row(d, j)
    BY <1>1, SameLaunch DEF Controlled
<1>3. /\ pc \in [Block -> Labels] /\ b \in [Block -> Nat] /\ copies \in [Block -> Seq(Copy)]
      /\ \A d \in Block : At(tiling, d, pc[d], b[d], copies[d])
    BY DEF Controlled
<1>4. /\ b[c] \in 0 .. Share(c) /\ Share(c) \in Nat
      /\ copies[c] \in Seq(Copy) /\ Len(copies[c]) \in Nat \ {0} /\ Len(copies[c]) <= b[c]
      /\ \A k \in 1 .. Len(copies[c]) :
            copies[c][k].row = Row(c, b[c] - Len(copies[c]) + k - 1)
    BY <1>1, <1>3, Shares, EmptySeq DEF Controlled, At, Share, Row
<1> DEFINE cs == Tail(copies[c])
<1>5. /\ cs \in Seq(Copy) /\ Len(cs) = Len(copies[c]) - 1
      /\ \A k \in 1 .. Len(cs) : cs[k] = copies[c][k + 1]
      /\ Head(copies[c]) = copies[c][1]
    BY <1>1, <1>4, HeadTailProperties
<1>6. /\ copies' \in [Block -> Seq(Copy)] /\ copies'[c] = cs
      /\ \A d \in Block : d # c => copies'[d] = copies[d]
    BY <1>1, <1>3, <1>5
<1> HIDE DEF cs
<1>7. Landed(c) \in 0 .. Share(c) - 1 /\ copies[c][1].row = Row(c, Landed(c))
    <2>1. 1 \in 1 .. Len(copies[c]) /\ b[c] - Len(copies[c]) + 1 - 1 = b[c] - Len(copies[c])
        BY <1>4
    <2> QED
        BY <1>4, <2>1 DEF Landed
<1>8. At(tiling, c, pc[c], b[c], cs)
    <2>1. Len(cs) <= b[c]
        BY <1>4, <1>5
    <2>2. ASSUME NEW k \in 1 .. Len(cs)
          PROVE  cs[k].row = Row(c, b[c] - Len(cs) + k - 1)
        <3>1. k + 1 \in 1 .. Len(copies[c])
            BY <1>4, <1>5
        <3>2. b[c] - Len(copies[c]) + (k + 1) - 1 = b[c] - Len(cs) + k - 1
            BY <1>4, <1>5
        <3> QED
            BY <1>4, <1>5, <3>1, <3>2
    <2> QED
        BY <1>3, <1>4, <2>1, <2>2 DEF At, Share, Row
<1>9. \A d \in Block : At(tiling, d, pc[d], b[d], copies'[d])
    BY <1>3, <1>6, <1>8
<1>10. \A d \in Block : At(tiling', d, pc'[d], b'[d], copies'[d])
    BY <1>1, <1>9, SameLaunch
<1>11. /\ Landed(c)' = Landed(c) + 1
       /\ \A d \in Block : d # c => Landed(d)' = Landed(d)
    <2>1. b[c] - Len(cs) = b[c] - Len(copies[c]) + 1
        BY <1>4, <1>5
    <2> QED
        BY <1>1, <1>6, <2>1 DEF Landed
<1>12. written' = written \cup {Row(c, Landed(c))} /\ Row(c, Landed(c)) \in Batch
    BY <1>1, <1>5, <1>7, Shares DEF Controlled
<1>13. \A d \in Block : \A j \in 0 .. Share(d) - 1 : Row(d, j) \in written <=> j < Landed(d)
    BY DEF Controlled
<1>14. ASSUME NEW d \in Block, NEW j \in 0 .. Share(d) - 1
       PROVE  Row(d, j) \in written' <=> j < Landed(d)'
    <2>1. Row(d, j) = Row(c, Landed(c)) <=> d = c /\ j = Landed(c)
        BY <1>7, Shares DEF Controlled
    <2>2. CASE d = c
        <3>1. j < Landed(c) + 1 <=> j < Landed(c) \/ j = Landed(c)
            BY <1>7
        <3> QED
            BY <1>11, <1>12, <1>13, <2>1, <2>2, <3>1
    <2>3. CASE d # c
        BY <1>11, <1>12, <1>13, <2>1, <2>3
    <2> QED
        BY <2>2, <2>3
<1>15. Row(c, Landed(c)) \notin written
    BY <1>7, <1>13
<1>16. Controlled'
    BY <1>1, <1>2, <1>3, <1>6, <1>10, <1>12, <1>14 DEF Controlled
<1> QED
    BY <1>7, <1>12, <1>15, <1>16


LEMMA InitControlled ==
    ASSUME Fits, Init
    PROVE  Controlled
<1>1. Tiled
    BY InitTiled
<1>2. /\ pc = [c \in Block |-> "entered"] /\ b = [c \in Block |-> 0]
      /\ copies = [c \in Block |-> <<>>] /\ written = {}
    BY DEF Init
<1>3. /\ pc \in [Block -> Labels] /\ b \in [Block -> Nat] /\ copies \in [Block -> Seq(Copy)]
    BY <1>2, EmptySeq DEF Labels
<1>4. \A c \in Block : pc[c] = "entered" /\ b[c] = 0 /\ copies[c] = <<>> /\ Len(copies[c]) = 0
    BY <1>2
<1>5. \A c \in Block : Share(c) \in Nat \ {0}
    BY <1>1, Shares
<1>6. \A c \in Block : At(tiling, c, pc[c], b[c], copies[c])
    BY <1>4, <1>5 DEF At, Share
<1>7. ASSUME NEW c \in Block, NEW j \in 0 .. Share(c) - 1
      PROVE  Row(c, j) \in written <=> j < Landed(c)
    BY <1>2, <1>4 DEF Landed
<1> QED
    BY <1>1, <1>2, <1>3, <1>6, <1>7 DEF Controlled

LEMMA StutterControlled ==
    ASSUME Controlled, UNCHANGED vars
    PROVE  Controlled'
<1>1. UNCHANGED <<gm, pc, b, copies, written>>
    BY DEF vars, gm
<1>2. /\ Tiled' /\ Block' = Block /\ Batch' = Batch /\ Copy' = Copy /\ tiling' = tiling
      /\ \A d : Share(d)' = Share(d) /\ \A j : Row(d, j)' = Row(d, j)
    BY <1>1, SameLaunch DEF Controlled
<1>3. \A d : Landed(d)' = Landed(d)
    BY <1>1 DEF Landed
<1> QED
    BY <1>1, <1>2, <1>3 DEF Controlled

LEMMA NextControlled == Controlled /\ [Next]_vars => Controlled'
<1> SUFFICES ASSUME Controlled, [Next]_vars PROVE Controlled'
    OBVIOUS
<1>1. CASE \E c \in Block : BlockStep(c) \/ FinishCopy(c)
    BY <1>1, EnterControlled, LeaveControlled, LoadControlled, CountControlled,
       ScanControlled, FinishControlled DEF BlockStep
<1>2. CASE UNCHANGED vars
    BY <1>2, StutterControlled
<1> QED
    BY <1>1, <1>2 DEF Next, Finished

LEMMA AlwaysControlled ==
    ASSUME Fits
    PROVE  Spec => []Controlled
<1>1. Init => Controlled
    BY InitControlled
<1> QED
    BY <1>1, NextControlled, PTL DEF Spec

\* What a block has in hand are rows of its own share that have not landed.
LEMMA InHandIs ==
    ASSUME Controlled, NEW c \in Block, NEW r \in InHand(c)
    PROVE  \E j \in 0 .. Share(c) - 1 : r = Row(c, j) /\ Landed(c) <= j
<1>1. /\ b[c] \in 0 .. Share(c) /\ Share(c) \in Nat \ {0}
      /\ Len(copies[c]) \in Nat /\ Len(copies[c]) <= b[c]
      /\ \A k \in 1 .. Len(copies[c]) : copies[c][k].row = Row(c, Landed(c) + k - 1)
      /\ pc[c] \in {"loaded", "counted"} => b[c] < Share(c)
    BY Shares DEF Controlled, At, Share, Row, Landed
<1>2. ASSUME NEW k \in 1 .. Len(copies[c]), r = copies[c][k].row
      PROVE  \E j \in 0 .. Share(c) - 1 : r = Row(c, j) /\ Landed(c) <= j
    <2>1. Landed(c) + k - 1 \in 0 .. Share(c) - 1 /\ Landed(c) <= Landed(c) + k - 1
        BY <1>1 DEF Landed
    <2> QED
        BY <1>1, <1>2, <2>1
<1>3. ASSUME pc[c] \in {"loaded", "counted"}, r = Row(c, b[c])
      PROVE  \E j \in 0 .. Share(c) - 1 : r = Row(c, j) /\ Landed(c) <= j
    <2>1. b[c] \in 0 .. Share(c) - 1 /\ Landed(c) <= b[c]
        BY <1>1, <1>3 DEF Landed
    <2> QED
        BY <1>3, <2>1
<1> QED
    BY <1>2, <1>3 DEF InHand, Row

LEMMA ControlledNoRace == Controlled => NoRowRace
<1> SUFFICES ASSUME Controlled, NEW c \in Block
             PROVE  /\ \A r \in InHand(c) : r \notin written
                    /\ \A d \in Block \ {c} : \A r \in InHand(c) : r \notin InHand(d)
    BY DEF NoRowRace
<1>1. ASSUME NEW r \in InHand(c)
      PROVE  r \notin written
    <2>1. PICK j \in 0 .. Share(c) - 1 : r = Row(c, j) /\ Landed(c) <= j
        BY InHandIs
    <2>2. Landed(c) \in Int
        BY DEF Controlled, Landed
    <2>3. ~(j < Landed(c))
        BY <2>1, <2>2
    <2> QED
        BY <2>1, <2>3 DEF Controlled
<1>2. ASSUME NEW d \in Block \ {c}, NEW r \in InHand(c), r \in InHand(d)
      PROVE  FALSE
    <2>1. PICK j \in 0 .. Share(c) - 1 : r = Row(c, j)
        BY InHandIs
    <2>2. PICK l \in 0 .. Share(d) - 1 : r = Row(d, l)
        BY <1>2, InHandIs
    <2>3. Row(c, j) = Row(d, l) => c = d /\ j = l
        BY Shares DEF Controlled
    <2> QED
        BY <2>1, <2>2, <2>3
<1> QED
    BY <1>1, <1>2

\* No row is in the hands of two blocks, nor taken again after its result has
\* arrived, for any batch and any number of cores that fit in a word.
THEOREM NoRowEverRaced ==
    ASSUME Fits
    PROVE  Spec => []NoRowRace
BY AlwaysControlled, ControlledNoRace, PTL


-----------------------------------------------------------------------------
(* The loop over the columns of a row.                                     *)

Columns == -1 .. SEQ_LEN - 1

\* One column: f as of the column before gives f as of column i.
ScanStep(f, i, idx, avail, numShortage) ==
    IF i = -1 THEN [cumsum |-> 0, result |-> {}]
    ELSE LET isEmpty  == idx[i] = Empty
             cumsum   == IF isEmpty THEN f[i - 1].cumsum + 1 ELSE f[i - 1].cumsum
             selected == cumsum <= numShortage /\ isEmpty
         IN  [cumsum |-> cumsum,
              result |-> IF i \in avail \/ selected
                         THEN f[i - 1].result \cup {i} ELSE f[i - 1].result]

Scanned(idx, avail, s) == CHOOSE f : f = [i \in Columns |-> ScanStep(f, i, idx, avail, s)]

LEMMA ScanIsScanned ==
    ASSUME NEW idx, NEW avail, NEW s
    PROVE  Scan(idx, avail, s) = Scanned(idx, avail, s)[SEQ_LEN - 1].result
    BY DEF Scan, Scanned, ScanStep, Columns

\* A set of natural numbers has a smallest one.
LEMMA Smallest ==
    ASSUME NEW T, T \subseteq Nat, T # {}
    PROVE  \E x \in T : \A y \in T : x <= y
<1>1. PICK x \in T : \A y \in T : ~ (<<y, x>> \in OpToRel(<, Nat))
    BY WFMin, NatLessThanWellFounded
<1>2. \A y \in T : <<y, x>> \in Nat \X Nat
    OBVIOUS
<1>3. \A y \in T : ~ (y < x)
    BY <1>1, <1>2 DEF OpToRel
<1>4. x \in Int /\ \A y \in T : y \in Int
    OBVIOUS
<1>5. \A y \in T : x <= y
    BY <1>3, <1>4
<1> QED
    BY <1>5

\* The running sum after a column, from that before it.
LEMMA CumsumGrows ==
    ASSUME NEW idx, NEW i \in Nat
    PROVE  /\ EmptyCumsum(idx, i) \in Nat
           /\ EmptyCumsum(idx, i) = IF idx[i] = Empty THEN EmptyCumsum(idx, i - 1) + 1
                                                     ELSE EmptyCumsum(idx, i - 1)
<1> DEFINE S == {j \in 0 .. i - 1 : idx[j] = Empty}
           T == {j \in 0 .. i : idx[j] = Empty}
<1>1. IsFiniteSet(S) /\ IsFiniteSet(T)
    <2>1. IsFiniteSet(0 .. i - 1) /\ IsFiniteSet(0 .. i)
        BY FS_Interval
    <2>2. S \in SUBSET (0 .. i - 1) /\ T \in SUBSET (0 .. i)
        OBVIOUS
    <2> QED
        BY <2>1, <2>2, FS_Subset
<1>2. T = IF idx[i] = Empty THEN S \cup {i} ELSE S
    <2>1. \A j : j \in 0 .. i <=> j \in 0 .. i - 1 \/ j = i
        OBVIOUS
    <2> QED
        BY <2>1
<1>3. i \notin S
    OBVIOUS
<1>4. EmptyCumsum(idx, i) = Cardinality(T) /\ EmptyCumsum(idx, i - 1) = Cardinality(S)
    BY DEF EmptyCumsum
<1> HIDE DEF S, T
<1>5. Cardinality(S) \in Nat /\ Cardinality(T) \in Nat
    BY <1>1, FS_CardinalityType
<1> QED
    BY <1>1, <1>2, <1>3, <1>4, <1>5, FS_AddElement

\* The loop computes the definition: the available slots, and the first empty
\* ones up to the shortage.
THEOREM ScanIsKernelRow ==
    ASSUME TopK = SEQ_LEN, NEW idx, NEW avail \in SUBSET Slot, NEW s \in Int
    PROVE  Scan(idx, avail, s) = avail \cup SelectEmpty(idx, s)
<1> DEFINE Select(i) == {k \in 0 .. i : k \in avail
                                          \/ (idx[k] = Empty /\ EmptyCumsum(idx, k) <= s)}
           g == [i \in Columns |-> [cumsum |-> EmptyCumsum(idx, i), result |-> Select(i)]]
           f == Scanned(idx, avail, s)
<1>1. SEQ_LEN \in Nat \ {0}
    BY SeqLenAssumption
<1>2. ASSUME NEW i \in Columns, i # -1
      PROVE  /\ i \in Nat /\ i - 1 \in Columns
             /\ EmptyCumsum(idx, i) = IF idx[i] = Empty THEN EmptyCumsum(idx, i - 1) + 1
                                                       ELSE EmptyCumsum(idx, i - 1)
             /\ Select(i) = IF i \in avail \/ (EmptyCumsum(idx, i) <= s /\ idx[i] = Empty)
                            THEN Select(i - 1) \cup {i} ELSE Select(i - 1)
    <2>1. i \in Nat /\ i - 1 \in Columns
        BY <1>1, <1>2 DEF Columns
    <2>2. \A k : k \in 0 .. i <=> k \in 0 .. i - 1 \/ k = i
        BY <2>1
    <2> QED
        BY <2>1, <2>2, CumsumGrows
<1>3. EmptyCumsum(idx, -1) = 0 /\ Select(-1) = {} /\ -1 \in Columns
    <2>1. {j \in 0 .. -1 : idx[j] = Empty} = {}
        OBVIOUS
    <2> QED
        BY <1>1, <2>1, FS_EmptySet DEF EmptyCumsum, Columns
<1> HIDE DEF Select
<1>4. ASSUME NEW i \in Columns
      PROVE  g[i] = ScanStep(g, i, idx, avail, s)
    <2>1. CASE i = -1
        BY <1>3, <2>1 DEF ScanStep
    <2>2. CASE i # -1
        BY <1>2, <2>2 DEF ScanStep
    <2> QED
        BY <2>1, <2>2
<1>5. g = [i \in Columns |-> ScanStep(g, i, idx, avail, s)]
    BY <1>4
<1> HIDE DEF g
<1>6. f = [i \in Columns |-> ScanStep(f, i, idx, avail, s)]
    BY <1>5 DEF Scanned
<1> HIDE DEF f
<1>7. \A i \in Columns : f[i] = g[i]
    <2> DEFINE D == {i \in Columns : i # -1 /\ f[i] # g[i]}
    <2>1. f[-1] = g[-1]
        BY <1>3, <1>5, <1>6 DEF ScanStep
    <2>2. ASSUME D # {}
          PROVE  FALSE
        <3>1. D \subseteq Nat
            BY <1>2
        <3>2. PICK m \in D : \A i \in D : m <= i
            BY <2>2, <3>1, Smallest
        <3>3. m \in Columns /\ m # -1 /\ m \in Nat /\ m - 1 \in Columns /\ m - 1 \notin D
            BY <1>2, <3>1, <3>2
        <3>4. f[m - 1] = g[m - 1]
            BY <2>1, <3>3
        <3>5. ScanStep(f, m, idx, avail, s) = ScanStep(g, m, idx, avail, s)
            BY <3>4 DEF ScanStep
        <3>6. f[m] = g[m]
            BY <1>4, <1>6, <3>3, <3>5
        <3> QED
            BY <3>2, <3>6
    <2> QED
        BY <2>1, <2>2
<1>8. f[SEQ_LEN - 1].result = Select(SEQ_LEN - 1)
    <2>1. SEQ_LEN - 1 \in Columns
        BY <1>1 DEF Columns
    <2>2. g[SEQ_LEN - 1].result = Select(SEQ_LEN - 1)
        BY <2>1 DEF g
    <2> QED
        BY <1>7, <2>1, <2>2
<1>9. Select(SEQ_LEN - 1) = avail \cup SelectEmpty(idx, s)
    BY DEF Select, Slot, SelectEmpty, EmptyCols
<1> QED
    BY <1>8, <1>9, ScanIsScanned DEF f


-----------------------------------------------------------------------------
(* The flat tensors.                                                       *)

\* The rows are as wide as the kernel expects, half precision can count them,
\* and the addresses fit in a word.
Exact ==
    /\ TopK = SEQ_LEN /\ SEQ_LEN <= HalfExact /\ HalfExact \in Nat
    /\ MaxBatch * SEQ_LEN <= Word
    /\ RowInputs \subseteq [miss : SUBSET Slot, avail : SUBSET Slot, old : [Slot -> Int]]

\* An address is that of one column of one row.
LEMMA AddressFact ==
    ASSUME NEW q \in Nat, NEW r \in Nat, NEW i \in Slot, NEW j \in Slot,
           q * TopK + i = r * TopK + j
    PROVE  q = r /\ i = j
<1>1. TopK \in Nat \ {0} /\ i \in 0 .. TopK - 1 /\ j \in 0 .. TopK - 1
    BY TopKAssumption DEF Slot
<1>2. ASSUME NEW x \in Nat, NEW y \in Nat, x < y
      PROVE  x * TopK + TopK <= y * TopK
    <2>1. TopK * (x + 1) <= TopK * y
        BY <1>1, <1>2, Monotone
    <2>2. TopK * (x + 1) = x * TopK + TopK /\ TopK * y = y * TopK
        BY <1>1
    <2> QED
        BY <2>1, <2>2
<1>3. q * TopK \in Nat /\ r * TopK \in Nat
    BY <1>1
<1>4. q = r
    <2>1. CASE q < r
        BY <1>1, <1>2, <1>3, <2>1
    <2>2. CASE r < q
        BY <1>1, <1>2, <1>3, <2>2
    <2> QED
        BY <2>1, <2>2
<1> QED
    BY <1>1, <1>3, <1>4

\* An address gives its row and column back.
LEMMA AddressBack ==
    ASSUME NEW a \in Nat
    PROVE  /\ a \div TopK \in Nat /\ a % TopK \in Slot
           /\ a = (a \div TopK) * TopK + (a % TopK)
<1>1. TopK \in Nat \ {0}
    BY TopKAssumption
<1>2. a \div TopK \in Nat /\ a % TopK \in 0 .. TopK - 1
    BY <1>1
<1>3. a = TopK * (a \div TopK) + (a % TopK)
    BY <1>1
<1>4. TopK * (a \div TopK) = (a \div TopK) * TopK
    BY <1>1, <1>2
<1> QED
    BY <1>2, <1>3, <1>4 DEF Slot

LEMMA AddressParts ==
    ASSUME NEW r \in Nat, NEW i \in Slot
    PROVE  /\ r * TopK + i \in Nat
           /\ (r * TopK + i) \div TopK = r /\ (r * TopK + i) % TopK = i
<1>1. r * TopK + i \in Nat
    BY TopKAssumption DEF Slot
<1> DEFINE a == r * TopK + i
<1>2. /\ a \div TopK \in Nat /\ a % TopK \in Slot
      /\ (a \div TopK) * TopK + (a % TopK) = r * TopK + i
    BY <1>1, AddressBack
<1> HIDE DEF a
<1>3. a \div TopK = r /\ a % TopK = i
    BY <1>2, AddressFact
<1> QED
    BY <1>1, <1>3 DEF a

\* The row starts of the kernel are those of the tensor.
LEMMA OffsetIs ==
    ASSUME Fits, Exact, Tiled, NEW r \in Batch
    PROVE  /\ Offset(r) = r * TopK /\ r \in Nat /\ Col = Slot
           /\ r * TopK + TopK <= tiling.batchSize * TopK
<1>1. /\ r \in Nat /\ r < tiling.batchSize /\ tiling.batchSize \in Nat
      /\ tiling.batchSize <= MaxBatch /\ MaxBatch \in Nat /\ SEQ_LEN \in Nat \ {0}
      /\ TopK = SEQ_LEN
    BY BatchIs, SeqLenAssumption DEF Tiled, Fits, Exact
<1>2. /\ SEQ_LEN * (r + 1) <= SEQ_LEN * tiling.batchSize
      /\ SEQ_LEN * tiling.batchSize <= SEQ_LEN * MaxBatch
    BY <1>1, Monotone
<1>3. /\ SEQ_LEN * (r + 1) = r * SEQ_LEN + SEQ_LEN /\ SEQ_LEN * MaxBatch = MaxBatch * SEQ_LEN
      /\ SEQ_LEN * tiling.batchSize = tiling.batchSize * SEQ_LEN
      /\ r * SEQ_LEN \in Nat
    BY <1>1
<1>4. MaxBatch * SEQ_LEN <= Word
    BY DEF Exact
<1>5. r * SEQ_LEN < Word
    <2> DEFINE x == r * SEQ_LEN
               y == SEQ_LEN * tiling.batchSize
               z == MaxBatch * SEQ_LEN
    <2>1. x \in Nat /\ x + SEQ_LEN <= y /\ y <= z /\ z <= Word
        BY <1>2, <1>3, <1>4
    <2>2. y \in Int /\ z \in Int /\ Word \in Int
        BY <1>1, WordAssumption
    <2> HIDE DEF x, y, z
    <2>3. x < Word
        BY <1>1, <2>1, <2>2
    <2> QED
        BY <2>3 DEF x
<1>6. Offset(r) = r * SEQ_LEN
    BY <1>3, <1>5, NoWrap DEF Offset
<1>7. Col = Slot
    BY <1>1 DEF Col, Slot
<1> QED
    BY <1>1, <1>2, <1>3, <1>6, <1>7

\* The rows of the launch.
LEMMA InputsAre ==
    ASSUME Exact, Tiled, NEW r \in Batch
    PROVE  /\ inputs[r].miss \in SUBSET Slot /\ inputs[r].avail \in SUBSET Slot
           /\ inputs[r].old \in [Slot -> Int]
           /\ r \in Nat /\ r \in 0 .. tiling.batchSize - 1
<1>1. Batch = 0 .. tiling.batchSize - 1
    BY BatchIs
<1>2. inputs[r] \in RowInputs
    BY <1>1 DEF Tiled
<1>3. inputs[r] \in [miss : SUBSET Slot, avail : SUBSET Slot, old : [Slot -> Int]]
    BY <1>2 DEF Exact
<1> QED
    BY <1>1, <1>3

LEMMA FlatIs ==
    ASSUME Exact, Tiled, NEW r \in Batch, NEW i \in Slot
    PROVE  /\ r * TopK + i \in Flat(inputs, "miss") <=> i \in inputs[r].miss
           /\ r * TopK + i \in Flat(inputs, "avail") <=> i \in inputs[r].avail
<1>1. Batch = BatchOf(inputs) /\ \A q \in Batch : q \in Nat
    BY InputsAre DEF Batch
<1>2. ASSUME NEW field
      PROVE  r * TopK + i \in Flat(inputs, field) <=> i \in inputs[r][field]
    <2>1. ASSUME i \in inputs[r][field]
          PROVE  r * TopK + i \in Flat(inputs, field)
        <3>1. /\ <<r, i>> \in {q \in Batch \X Slot : q[2] \in inputs[q[1]][field]}
              /\ <<r, i>>[1] * TopK + <<r, i>>[2] = r * TopK + i
            BY <2>1
        <3> QED
            BY <1>1, <3>1 DEF Flat
    <2>2. ASSUME r * TopK + i \in Flat(inputs, field)
          PROVE  i \in inputs[r][field]
        <3>1. PICK q \in Batch \X Slot :
                 q[2] \in inputs[q[1]][field] /\ r * TopK + i = q[1] * TopK + q[2]
            BY <1>1, <2>2 DEF Flat
        <3>2. q[1] \in Batch /\ q[2] \in Slot
            BY <3>1
        <3>3. r = q[1] /\ i = q[2]
            BY <1>1, <3>1, <3>2, AddressFact
        <3> QED
            BY <3>1, <3>3
    <2> QED
        BY <2>1, <2>2
<1> QED
    BY <1>2

\* Cardinality(Batch) rows are the batch.
LEMMA BatchCount ==
    ASSUME Tiled
    PROVE  Cardinality(Batch) = tiling.batchSize /\ tiling.batchSize \in Nat
<1>1. Batch = 0 .. tiling.batchSize - 1 /\ tiling.batchSize \in Nat \ {0}
    BY BatchIs DEF Tiled, TilingFits
<1> QED
    BY <1>1, FS_Interval

LEMMA FlatIdxIs ==
    ASSUME Fits, Exact, Tiled, NEW r \in Batch, NEW i \in Slot
    PROVE  FlatIdx(inputs)[r * TopK + i] = inputs[r].old[i]
<1>1. Cardinality(BatchOf(inputs)) = tiling.batchSize
    BY BatchCount DEF Batch
<1>2. r * TopK + i \in 0 .. tiling.batchSize * TopK - 1
    <2>1. /\ r * TopK + TopK <= tiling.batchSize * TopK /\ r \in Nat
          /\ tiling.batchSize \in Nat
        BY OffsetIs, BatchCount
    <2>2. r * TopK \in Nat /\ tiling.batchSize * TopK \in Nat /\ i \in 0 .. TopK - 1 /\ TopK \in Nat
        BY <2>1, TopKAssumption DEF Slot
    <2> QED
        BY <2>1, <2>2
<1>3. (r * TopK + i) \div TopK = r /\ (r * TopK + i) % TopK = i
    BY AddressParts, InputsAre
<1> DEFINE a == r * TopK + i
<1>4. FlatIdx(inputs)[a] = inputs[a \div TopK].old[a % TopK]
    <2> HIDE DEF a
    <2>1. a \in 0 .. tiling.batchSize * TopK - 1
        BY <1>2 DEF a
    <2> QED
        BY <1>1, <2>1 DEF FlatIdx
<1> QED
    BY <1>3, <1>4


-----------------------------------------------------------------------------
(* What is in global and in local memory.                                  *)

\* A row of the launch, what it needs, and what the kernel makes of it.
InputRow(r) == [miss |-> inputs[r].miss, avail |-> inputs[r].avail, idx |-> inputs[r].old]
Need(r)     == Cardinality(inputs[r].miss) - Cardinality(inputs[r].avail)
Extended(r) == KernelRow(inputs[r].miss, inputs[r].avail, inputs[r].old)

\* Row r of available_slot_mask: extended once its copy has landed.
Now(r) == IF r \in written THEN Extended(r) ELSE inputs[r].avail

Memory ==
    /\ missGm = Flat(inputs, "miss") /\ idxGm = FlatIdx(inputs)
    /\ availGm \subseteq 0 .. tiling.batchSize * TopK - 1
    /\ \A r \in Batch : \A i \in Slot : r * TopK + i \in availGm <=> i \in Now(r)

\* What a block holds is that of its row; the buffers whose copies are under
\* way hold the rows they are copied to.
Local(c) ==
    /\ pc[c] \in {"loaded", "counted"} => loaded[c] = InputRow(Row(c, b[c]))
    /\ pc[c] = "counted" => shortage[c] = Need(Row(c, b[c]))
    /\ shortage[c] \in -SEQ_LEN .. SEQ_LEN
    /\ results[c] \in [0 .. BUFFER_NUM - 1 -> SUBSET Col]
    /\ \A k \in 1 .. Len(copies[c]) :
          results[c][copies[c][k].buffer] = Extended(copies[c][k].row)

Correct ==
    /\ Controlled /\ Memory
    /\ DOMAIN loaded = Block /\ DOMAIN shortage = Block /\ DOMAIN results = Block
    /\ \A c \in Block : Local(c)

LEMMA SameInputs ==
    ASSUME UNCHANGED gm
    PROVE  /\ \A r : InputRow(r)' = InputRow(r) /\ Need(r)' = Need(r) /\ Extended(r)' = Extended(r)
           /\ UNCHANGED <<inputs, tiling, missGm, idxGm>>
BY DEF gm, InputRow, Need, Extended

LEMMA SameMemory ==
    ASSUME Memory, UNCHANGED <<gm, availGm, written>>
    PROVE  Memory'
<1>1. \A r : Now(r)' = Now(r)
    BY SameInputs DEF Now
<1>2. Batch' = Batch
    BY SameLaunch
<1> QED
    BY <1>1, <1>2, SameInputs DEF Memory

\* Only block c has moved, and it is right.
LEMMA OthersCorrect ==
    ASSUME Correct, Controlled', UNCHANGED gm, Memory', NEW c \in Block,
           DOMAIN loaded' = Block, DOMAIN shortage' = Block, DOMAIN results' = Block,
           \A d \in Block : d # c =>
              /\ pc'[d] = pc[d] /\ b'[d] = b[d] /\ loaded'[d] = loaded[d]
              /\ shortage'[d] = shortage[d] /\ results'[d] = results[d]
              /\ copies'[d] = copies[d],
           Local(c)'
    PROVE  Correct'
<1>1. Block' = Block /\ \A d : \A j : Row(d, j)' = Row(d, j)
    BY SameLaunch
<1>2. ASSUME NEW d \in Block, d # c
      PROVE  Local(d)'
    <2>1. Row(d, b[d])' = Row(d, b[d])
        <3>1. tiling' = tiling /\ b'[d] = b[d]
            BY <1>2, SameLaunch
        <3> QED
            BY <3>1 DEF Row
    <2>2. Local(d)
        BY DEF Correct
    <2> QED
        BY <1>2, <2>1, <2>2, SameInputs DEF Local, Col
<1> QED
    BY <1>1, <1>2 DEF Correct


\* The computation of one row is exact, and is what the comment says.
LEMMA RowComputed ==
    ASSUME Exact, Tiled, NEW r \in Batch
    PROVE  /\ Need(r) \in -SEQ_LEN .. SEQ_LEN
           /\ HalfSum(inputs[r].miss) = {Cardinality(inputs[r].miss)}
           /\ HalfSum(inputs[r].avail) = {Cardinality(inputs[r].avail)}
           /\ Extended(r) \in SUBSET Slot
           /\ Scan(inputs[r].old, inputs[r].avail, Need(r)) = Extended(r)
<1>1. /\ inputs[r].miss \in SUBSET Slot /\ inputs[r].avail \in SUBSET Slot
      /\ inputs[r].old \in [Slot -> Int]
    BY InputsAre
<1>2. TopK = SEQ_LEN /\ SEQ_LEN \in Nat /\ SEQ_LEN <= HalfExact /\ HalfExact \in Nat
    BY SeqLenAssumption DEF Exact
<1>3. ASSUME NEW T \in SUBSET Slot
      PROVE  Cardinality(T) \in 0 .. SEQ_LEN /\ HalfSum(T) = {Cardinality(T)}
    <2>1. IsFiniteSet(Slot) /\ Cardinality(Slot) = SEQ_LEN
        BY <1>2, FS_Interval DEF Slot
    <2>2. Cardinality(T) \in Nat /\ Cardinality(T) <= SEQ_LEN
        BY <2>1, FS_Subset, FS_CardinalityType
    <2>3. Cardinality(T) <= HalfExact
        BY <1>2, <2>2
    <2> QED
        BY <1>2, <2>2, <2>3 DEF HalfSum
<1>4. Need(r) \in -SEQ_LEN .. SEQ_LEN
    <2>1. Cardinality(inputs[r].miss) \in 0 .. SEQ_LEN /\ Cardinality(inputs[r].avail) \in 0 .. SEQ_LEN
        BY <1>1, <1>3
    <2> QED
        BY <1>2, <2>1 DEF Need
<1>5. Extended(r) = inputs[r].avail \cup SelectEmpty(inputs[r].old, Need(r))
    BY DEF Extended, KernelRow, Need
<1>6. Extended(r) \in SUBSET Slot
    BY <1>1, <1>5 DEF SelectEmpty, EmptyCols
<1>7. Scan(inputs[r].old, inputs[r].avail, Need(r)) = Extended(r)
    BY <1>1, <1>2, <1>4, <1>5, ScanIsKernelRow
<1> QED
    BY <1>1, <1>3, <1>4, <1>6, <1>7

\* A block loads its row as it was at launch.
LEMMA LoadCorrect ==
    ASSUME Fits, Exact, Correct, NEW c \in Block, LoadRow(c)
    PROVE  Correct'
<1> DEFINE r == Row(c, b[c])
           row == [miss  |-> CopyInMask(missGm, Offset(r)),
                   avail |-> CopyInMask(availGm, Offset(r)),
                   idx   |-> CopyInRow(idxGm, Offset(r))]
<1>1. /\ pc' = [pc EXCEPT ![c] = "loaded"] /\ loaded' = [loaded EXCEPT ![c] = row]
      /\ UNCHANGED <<gm, availGm, b, shortage, results, copies, written>>
    BY DEF LoadRow, Goto, Row
<1>2. Controlled' /\ b[c] \in 0 .. Share(c) - 1
    BY LoadControlled DEF Correct
<1>3. Controlled /\ Memory /\ Tiled /\ Local(c)
    BY DEF Correct, Controlled
<1>4. r \in Batch /\ r \notin written
    <2>1. r \in written <=> b[c] < Landed(c)
        BY <1>2, <1>3 DEF Controlled
    <2>2. b[c] \in Nat /\ Len(copies[c]) \in Nat
        BY <1>3 DEF Controlled
    <2> QED
        BY <1>2, <1>3, <2>1, <2>2, Shares DEF Landed
<1> HIDE DEF r
<1>5. Offset(r) = r * TopK /\ r \in Nat /\ Col = Slot
    BY <1>3, <1>4, OffsetIs
<1>6. row = InputRow(r)
    <2>1. \A i \in Slot : r * TopK + i \in missGm <=> i \in inputs[r].miss
        BY <1>3, <1>4, FlatIs DEF Memory
    <2>2. \A i \in Slot : r * TopK + i \in availGm <=> i \in inputs[r].avail
        BY <1>3, <1>4 DEF Memory, Now
    <2>3. \A i \in Slot : idxGm[r * TopK + i] = inputs[r].old[i]
        BY <1>3, <1>4, FlatIdxIs DEF Memory
    <2>4. /\ inputs[r].miss \in SUBSET Slot /\ inputs[r].avail \in SUBSET Slot
          /\ inputs[r].old \in [Slot -> Int]
        BY <1>3, <1>4, InputsAre
    <2>5. row.miss = inputs[r].miss
        BY <1>5, <2>1, <2>4 DEF CopyInMask
    <2>6. row.avail = inputs[r].avail
        BY <1>5, <2>2, <2>4 DEF CopyInMask
    <2>7. row.idx = inputs[r].old
        BY <1>5, <2>3, <2>4 DEF CopyInRow
    <2> QED
        BY <2>5, <2>6, <2>7 DEF InputRow
<1> HIDE DEF row
<1>7. /\ \A d \in Block : d # c => pc'[d] = pc[d] /\ loaded'[d] = loaded[d]
      /\ pc'[c] = "loaded" /\ loaded'[c] = InputRow(r) /\ DOMAIN loaded' = Block
    BY <1>1, <1>6 DEF Correct, Controlled
<1>8. Local(c)'
    <2>1. Row(c, b[c])' = r
        BY <1>1, SameLaunch DEF Row, r
    <2> QED
        BY <1>1, <1>3, <1>7, <2>1, SameInputs DEF Local, Col
<1>9. Memory'
    BY <1>1, <1>3, SameMemory
<1> QED
    BY <1>1, <1>2, <1>7, <1>8, <1>9, OthersCorrect DEF Correct

LEMMA CountCorrect ==
    ASSUME Fits, Exact, Correct, NEW c \in Block, CountRow(c)
    PROVE  Correct'
<1> DEFINE r == Row(c, b[c])
<1>1. /\ pc[c] = "loaded" /\ pc' = [pc EXCEPT ![c] = "counted"]
      /\ UNCHANGED <<gm, availGm, b, loaded, results, copies, written>>
    BY DEF CountRow, Goto
<1>2. PICK m \in HalfSum(loaded[c].miss), a \in HalfSum(loaded[c].avail) :
          shortage' = [shortage EXCEPT ![c] = m - a]
    BY DEF CountRow
<1>3. Controlled' /\ Controlled /\ Memory /\ Tiled /\ Local(c)
    BY CountControlled DEF Correct, Controlled
<1>4. r \in Batch
    <2>1. b[c] \in 0 .. Share(c) - 1
        BY <1>1, <1>3, Shares DEF Controlled, At, Share, Row
    <2> QED
        BY <1>3, <2>1, Shares
<1> HIDE DEF r
<1>5. loaded[c] = InputRow(r)
    BY <1>1, <1>3 DEF Local, r
<1>6. loaded[c].miss = inputs[r].miss /\ loaded[c].avail = inputs[r].avail
    BY <1>5 DEF InputRow
<1>7. m - a = Need(r) /\ Need(r) \in -SEQ_LEN .. SEQ_LEN
    BY <1>2, <1>3, <1>4, <1>6, RowComputed DEF Need
<1>8. /\ \A d \in Block : d # c => pc'[d] = pc[d] /\ shortage'[d] = shortage[d]
      /\ pc'[c] = "counted" /\ shortage'[c] = Need(r) /\ DOMAIN shortage' = Block
    BY <1>1, <1>2, <1>7 DEF Correct, Controlled
<1>9. Local(c)'
    <2>1. Row(c, b[c])' = r
        BY <1>1, SameLaunch DEF Row, r
    <2> QED
        BY <1>1, <1>3, <1>5, <1>7, <1>8, <2>1, SameInputs DEF Local, Col
<1>10. Memory'
    BY <1>1, <1>3, SameMemory
<1> QED
    BY <1>1, <1>3, <1>8, <1>9, <1>10, OthersCorrect DEF Correct

\* The buffer that is filled is that of no copy under way.
LEMMA ScanCorrect ==
    ASSUME Fits, Exact, Correct, NEW c \in Block, ScanRow(c)
    PROVE  Correct'
<1> DEFINE r == Row(c, b[c])
           k0 == ResultBuffer(c)
           copy == [buffer |-> k0, row |-> r]
           result == Scan(loaded[c].idx, loaded[c].avail, shortage[c])
<1>1. /\ pc[c] = "counted" /\ ResultBufferFree(c) /\ pc' = [pc EXCEPT ![c] = "loop"]
      /\ results' = [results EXCEPT ![c][k0] = result]
      /\ copies' = [copies EXCEPT ![c] = Append(@, copy)]
      /\ loaded' = [loaded EXCEPT ![c] = <<>>]
      /\ shortage' = [shortage EXCEPT ![c] = 0]
      /\ b' = [b EXCEPT ![c] = @ + 1]
      /\ UNCHANGED <<gm, availGm, written>>
    BY DEF ScanRow, FillAndCopyOut, Goto, Row
<1>2. Controlled' /\ Controlled /\ Memory /\ Tiled /\ Local(c)
    BY ScanControlled DEF Correct, Controlled
<1>3. r \in Batch /\ b[c] \in Nat
    <2>1. b[c] \in 0 .. Share(c) - 1
        BY <1>1, <1>2, Shares DEF Controlled, At, Share, Row
    <2> QED
        BY <1>2, <2>1, Shares
<1>4. k0 \in 0 .. BUFFER_NUM - 1
    BY <1>3, BufferNumAssumption DEF ResultBuffer
<1>5. \A k \in 1 .. Len(copies[c]) : copies[c][k].buffer # k0
    BY <1>1 DEF ResultBufferFree
<1>6. result = Extended(r) /\ Extended(r) \in SUBSET Col
    <2>1. /\ loaded[c].idx = inputs[r].old /\ loaded[c].avail = inputs[r].avail
          /\ shortage[c] = Need(r)
        BY <1>1, <1>2 DEF Local, InputRow
    <2>2. Col = Slot
        BY <1>2, <1>3, OffsetIs
    <2> QED
        BY <1>2, <1>3, <2>1, <2>2, RowComputed
<1>7. copies \in [Block -> Seq(Copy)] /\ copies[c] \in Seq(Copy) /\ Len(copies[c]) \in Nat
    BY <1>2 DEF Controlled
<1>8. copy.buffer = k0 /\ copy.row = r /\ copy \in Copy
    BY <1>3, <1>4 DEF Copy
<1> HIDE DEF copy, r, k0, result
<1>9. /\ \A d \in Block : d # c =>
              /\ pc'[d] = pc[d] /\ b'[d] = b[d] /\ loaded'[d] = loaded[d]
              /\ shortage'[d] = shortage[d] /\ results'[d] = results[d]
              /\ copies'[d] = copies[d]
      /\ DOMAIN loaded' = Block /\ DOMAIN shortage' = Block /\ DOMAIN results' = Block
      /\ pc'[c] = "loop" /\ shortage'[c] = 0
      /\ results'[c] = [results[c] EXCEPT ![k0] = result]
      /\ copies'[c] = Append(copies[c], copy)
    BY <1>1, <1>7 DEF Correct, Controlled
<1>10. /\ results[c] \in [0 .. BUFFER_NUM - 1 -> SUBSET Col]
       /\ \A k \in 1 .. Len(copies[c]) :
             results[c][copies[c][k].buffer] = Extended(copies[c][k].row)
    BY <1>2 DEF Local
<1>11. ASSUME NEW k \in 1 .. Len(copies'[c])
       PROVE  results'[c][copies'[c][k].buffer] = Extended(copies'[c][k].row)
    <2>1. Len(copies'[c]) = Len(copies[c]) + 1
        BY <1>7, <1>8, <1>9
    <2>2. CASE k = Len(copies[c]) + 1
        <3>1. copies'[c][k] = copy
            BY <1>7, <1>8, <1>9, <2>2
        <3>2. results'[c][k0] = result
            BY <1>4, <1>9, <1>10
        <3> QED
            BY <1>6, <1>8, <3>1, <3>2
    <2>3. CASE k # Len(copies[c]) + 1
        <3>1. k \in 1 .. Len(copies[c])
            BY <1>7, <2>1, <2>3
        <3>2. copies'[c][k] = copies[c][k]
            BY <1>7, <1>8, <1>9, <3>1
        <3>3. results'[c][copies[c][k].buffer] = results[c][copies[c][k].buffer]
            BY <1>5, <1>9, <1>10, <3>1
        <3> QED
            BY <1>10, <3>1, <3>2, <3>3
    <2> QED
        BY <2>2, <2>3
<1>12. results'[c] \in [0 .. BUFFER_NUM - 1 -> SUBSET Col]
    BY <1>4, <1>6, <1>9, <1>10
<1>13. Local(c)'
    <2>1. 0 \in -SEQ_LEN .. SEQ_LEN
        BY SeqLenAssumption
    <2>2. \A s : Extended(s)' = Extended(s)
        BY <1>1, SameInputs
    <2> QED
        BY <1>9, <1>11, <1>12, <2>1, <2>2 DEF Local, Col
<1>14. Memory'
    BY <1>1, <1>2, SameMemory
<1> QED
    BY <1>1, <1>2, <1>9, <1>13, <1>14, OthersCorrect


LEMMA TurnCorrect ==
    ASSUME Correct, NEW c \in Block, EnterProcess(c) \/ LeaveProcess(c)
    PROVE  Correct'
<1>1. /\ \E l \in {"loop", "done"} : pc' = [pc EXCEPT ![c] = l]
      /\ UNCHANGED <<gm, availGm, b, loaded, shortage, results, copies, written>>
    BY DEF EnterProcess, LeaveProcess, Goto
<1>2. Controlled' /\ Controlled /\ Memory /\ Local(c)
    BY EnterControlled, LeaveControlled DEF Correct
<1>3. /\ \A d \in Block : d # c => pc'[d] = pc[d]
      /\ pc'[c] \in {"loop", "done"}
    BY <1>1, <1>2 DEF Controlled
<1>4. Local(c)'
    BY <1>1, <1>2, <1>3, SameInputs DEF Local, Col
<1>5. Memory'
    BY <1>1, <1>2, SameMemory
<1> QED
    BY <1>1, <1>2, <1>3, <1>4, <1>5, OthersCorrect DEF Correct

\* A copy writes its own row of the mask, and no other.
LEMMA RowIsWritten ==
    ASSUME Fits, Exact, Tiled, NEW addresses, NEW r \in Batch, NEW cols \in SUBSET Slot,
           NEW q \in Batch, NEW i \in Slot
    PROVE  q * TopK + i \in CopyOutMask(addresses, Offset(r), cols)
               <=> IF q = r THEN i \in cols ELSE q * TopK + i \in addresses
<1>1. Offset(r) = r * TopK /\ r \in Nat /\ q \in Nat /\ Col = Slot
    BY OffsetIs
<1>2. \A j \in Slot : q * TopK + i = r * TopK + j => q = r /\ i = j
    BY <1>1, AddressFact
<1>3. q * TopK + i \in CopyOutMask(addresses, Offset(r), cols)
          <=> \/ q * TopK + i \in addresses /\ ~ \E j \in Slot : q * TopK + i = r * TopK + j
              \/ \E j \in cols : q * TopK + i = r * TopK + j
    BY <1>1 DEF CopyOutMask
<1> QED
    BY <1>2, <1>3

\* The copy that lands extends its row, and changes nothing else.
LEMMA FinishCorrect ==
    ASSUME Fits, Exact, Correct, NEW c \in Block, FinishCopy(c)
    PROVE  /\ Correct'
           /\ \E r \in Batch \ written :
                 /\ written' = written \cup {r}
                 /\ availGm' = CopyOutMask(availGm, Offset(r), Extended(r))
                 /\ Extended(r) \in SUBSET Slot
<1> DEFINE r == Row(c, Landed(c))
<1>1. /\ copies[c] # <<>> /\ copies' = [copies EXCEPT ![c] = Tail(@)]
      /\ availGm' = CopyOutMask(availGm, Offset(Head(copies[c]).row),
                                results[c][Head(copies[c]).buffer])
      /\ UNCHANGED <<gm, pc, b, loaded, shortage, results>>
    BY DEF FinishCopy
<1>2. /\ Controlled' /\ Controlled /\ Memory /\ Tiled /\ Local(c)
      /\ Landed(c) \in 0 .. Share(c) - 1 /\ copies[c][1].row = r
      /\ written' = written \cup {r} /\ r \notin written
    BY FinishControlled DEF Correct, Controlled
<1>3. r \in Batch
    BY <1>2, Shares
<1> HIDE DEF r
<1>4. Extended(r) \in SUBSET Slot
    BY <1>2, <1>3, RowComputed
<1>5. /\ copies[c] \in Seq(Copy) /\ Len(copies[c]) \in Nat \ {0}
      /\ Len(Tail(copies[c])) = Len(copies[c]) - 1
      /\ \A k \in 1 .. Len(Tail(copies[c])) : Tail(copies[c])[k] = copies[c][k + 1]
      /\ Head(copies[c]) = copies[c][1]
    <2>1. copies[c] \in Seq(Copy)
        BY <1>2 DEF Controlled
    <2> QED
        BY <1>1, <2>1, HeadTailProperties, EmptySeq
<1>6. availGm' = CopyOutMask(availGm, Offset(r), Extended(r))
    <2>1. results[c][copies[c][1].buffer] = Extended(copies[c][1].row)
        BY <1>2, <1>5 DEF Local
    <2> QED
        BY <1>1, <1>2, <1>5, <2>1
<1>7. ASSUME NEW q \in Batch, NEW i \in Slot
      PROVE  q * TopK + i \in availGm' <=> i \in Now(q)'
    <2>1. q * TopK + i \in availGm' <=> IF q = r THEN i \in Extended(r)
                                                 ELSE q * TopK + i \in availGm
        BY <1>2, <1>3, <1>4, <1>6, RowIsWritten
    <2>2. Now(q)' = IF q = r THEN Extended(r) ELSE Now(q)
        BY <1>1, <1>2, SameInputs DEF Now
    <2>3. q * TopK + i \in availGm <=> i \in Now(q)
        BY <1>2 DEF Memory
    <2> QED
        BY <2>1, <2>2, <2>3
<1>8. availGm' \subseteq 0 .. tiling.batchSize * TopK - 1
    <2>1. /\ Offset(r) = r * TopK /\ r \in Nat
          /\ r * TopK + TopK <= tiling.batchSize * TopK
        BY <1>2, <1>3, OffsetIs
    <2>2. TopK \in Nat /\ r * TopK \in Nat /\ tiling.batchSize * TopK \in Nat
        BY <1>2, <2>1, TopKAssumption, BatchCount
    <2>3. \A i \in Slot : r * TopK + i \in 0 .. tiling.batchSize * TopK - 1
        BY <2>1, <2>2 DEF Slot
    <2>4. availGm \subseteq 0 .. tiling.batchSize * TopK - 1
        BY <1>2 DEF Memory
    <2> QED
        BY <1>4, <1>6, <2>1, <2>3, <2>4 DEF CopyOutMask
<1>9. Memory'
    <2>1. Batch' = Batch
        BY <1>1, SameLaunch
    <2> QED
        BY <1>1, <1>2, <1>7, <1>8, <2>1, SameInputs DEF Memory
<1>10. /\ copies \in [Block -> Seq(Copy)] /\ copies'[c] = Tail(copies[c])
       /\ \A d \in Block : d # c => copies'[d] = copies[d]
    BY <1>1, <1>2 DEF Controlled
<1>11. ASSUME NEW k \in 1 .. Len(copies'[c])
       PROVE  results'[c][copies'[c][k].buffer] = Extended(copies'[c][k].row)
    <2>1. k + 1 \in 1 .. Len(copies[c]) /\ copies'[c][k] = copies[c][k + 1]
        BY <1>5, <1>10
    <2> QED
        BY <1>1, <1>2, <2>1 DEF Local
<1>12. Local(c)'
    <2>1. Row(c, b[c])' = Row(c, b[c])
        BY <1>1, SameLaunch DEF Row
    <2>2. \A s : Extended(s)' = Extended(s) /\ InputRow(s)' = InputRow(s) /\ Need(s)' = Need(s)
        BY <1>1, SameInputs
    <2> QED
        BY <1>1, <1>2, <1>11, <2>1, <2>2 DEF Local, Col
<1>13. Correct'
    BY <1>1, <1>2, <1>9, <1>10, <1>12, OthersCorrect DEF Correct
<1> QED
    BY <1>2, <1>3, <1>4, <1>6, <1>13


LEMMA InitCorrect ==
    ASSUME Fits, Exact, Init
    PROVE  Correct
<1>1. Controlled /\ Tiled
    BY InitControlled DEF Controlled
<1>2. /\ missGm = Flat(inputs, "miss") /\ idxGm = FlatIdx(inputs)
      /\ availGm = Flat(inputs, "avail") /\ written = {}
      /\ pc = [c \in Block |-> "entered"]
      /\ loaded = [c \in Block |-> <<>>] /\ shortage = [c \in Block |-> 0]
      /\ results = [c \in Block |-> [k \in 0 .. BUFFER_NUM - 1 |-> {}]]
      /\ copies = [c \in Block |-> <<>>]
    BY DEF Init
<1>3. \A r \in Batch : \A i \in Slot : r * TopK + i \in availGm <=> i \in Now(r)
    BY <1>1, <1>2, FlatIs DEF Now
<1>4. ASSUME NEW a \in availGm
      PROVE  a \in 0 .. tiling.batchSize * TopK - 1
    <2>1. PICK p \in Batch \X Slot : a = p[1] * TopK + p[2]
        BY <1>2 DEF Flat, Batch
    <2>2. p[1] \in Batch /\ p[2] \in 0 .. TopK - 1
        BY <2>1 DEF Slot
    <2>3. p[1] \in Nat /\ p[1] * TopK + TopK <= tiling.batchSize * TopK
        BY <1>1, <2>2, OffsetIs
    <2>4. p[1] * TopK \in Nat /\ tiling.batchSize * TopK \in Nat /\ TopK \in Nat
        BY <1>1, <2>3, TopKAssumption, BatchCount
    <2> QED
        BY <2>1, <2>2, <2>3, <2>4
<1>5. ASSUME NEW c \in Block
      PROVE  Local(c)
    <2>1. pc[c] = "entered" /\ shortage[c] = 0 /\ copies[c] = <<>> /\ Len(copies[c]) = 0
        BY <1>2
    <2>2. results[c] \in [0 .. BUFFER_NUM - 1 -> SUBSET Col]
        BY <1>2
    <2>3. 0 \in -SEQ_LEN .. SEQ_LEN
        BY SeqLenAssumption
    <2> QED
        BY <2>1, <2>2, <2>3 DEF Local
<1> QED
    BY <1>1, <1>2, <1>3, <1>4, <1>5 DEF Correct, Memory

LEMMA NextCorrect ==
    ASSUME Fits, Exact
    PROVE  Correct /\ [Next]_vars => Correct'
<1> SUFFICES ASSUME Correct, [Next]_vars PROVE Correct'
    OBVIOUS
<1>1. CASE \E c \in Block : BlockStep(c) \/ FinishCopy(c)
    BY <1>1, TurnCorrect, LoadCorrect, CountCorrect, ScanCorrect, FinishCorrect DEF BlockStep
<1>2. CASE UNCHANGED vars
    <2>1. UNCHANGED <<gm, availGm, pc, b, loaded, shortage, results, copies, written>>
        BY <1>2 DEF vars, gm
    <2>2. Controlled' /\ Memory'
        BY <1>2, <2>1, StutterControlled, SameMemory DEF Correct
    <2>3. Block' = Block
        BY <2>1, SameLaunch
    <2>4. ASSUME NEW c \in Block
          PROVE  Local(c)'
        <3>1. Row(c, b[c])' = Row(c, b[c])
            BY <2>1, SameLaunch DEF Row
        <3>2. Local(c)
            BY DEF Correct
        <3> QED
            BY <2>1, <3>1, <3>2, SameInputs DEF Local, Col
    <2> QED
        BY <2>1, <2>2, <2>3, <2>4 DEF Correct
<1> QED
    BY <1>1, <1>2 DEF Next, Finished

LEMMA AlwaysCorrect ==
    ASSUME Fits, Exact
    PROVE  Spec => []Correct
<1>1. Init => Correct
    BY InitCorrect
<1> QED
    BY <1>1, NextCorrect, PTL DEF Spec

LEMMA CorrectType ==
    ASSUME Fits, Exact
    PROVE  Correct => TypeOK
<1> SUFFICES ASSUME Correct PROVE TypeOK
    OBVIOUS
<1>1. Controlled /\ Tiled /\ Memory /\ Col = Slot
    BY DEF Correct, Controlled, Exact, Col, Slot
<1>2. inputs \in [Batch -> RowInputs]
    BY <1>1, BatchIs DEF Tiled
<1>3. availGm \subseteq 0 .. Cardinality(Batch) * TopK - 1
    BY <1>1, BatchCount DEF Memory
<1>4. ASSUME NEW c \in Block
      PROVE  /\ b[c] \in 0 .. BlockBatches(tiling, c)
             /\ pc[c] \in {"loaded", "counted"} =>
                   /\ loaded[c].miss \subseteq Col
                   /\ loaded[c].avail \subseteq Col
                   /\ DOMAIN loaded[c].idx = Col
             /\ shortage[c] \in -SEQ_LEN .. SEQ_LEN
             /\ results[c] \in [0 .. BUFFER_NUM - 1 -> SUBSET Col]
             /\ \A k \in 1 .. Len(copies[c]) :
                   copies[c][k] \in [buffer : 0 .. BUFFER_NUM - 1, row : Batch]
    <2>1. Local(c) /\ b[c] \in 0 .. Share(c) /\ copies[c] \in Seq(Copy)
        BY <1>1 DEF Correct, Controlled, At, Share
    <2>2. ASSUME pc[c] \in {"loaded", "counted"}
          PROVE  /\ loaded[c].miss \subseteq Col /\ loaded[c].avail \subseteq Col
                 /\ DOMAIN loaded[c].idx = Col
        <3>1. b[c] \in 0 .. Share(c) - 1
            BY <1>1, <2>1, <2>2, Shares DEF Controlled, At, Share
        <3>2. Row(c, b[c]) \in Batch /\ loaded[c] = InputRow(Row(c, b[c]))
            BY <1>1, <2>1, <2>2, <3>1, Shares DEF Local
        <3> QED
            BY <1>1, <3>2, InputsAre DEF InputRow
    <2>3. \A k \in 1 .. Len(copies[c]) : copies[c][k] \in Copy
        BY <2>1
    <2> QED
        BY <2>1, <2>2, <2>3 DEF Local, Copy, Share
<1> QED
    BY <1>1, <1>2, <1>3, <1>4 DEF TypeOK, Controlled, Labels

\* Every variable has its type, for any batch, any number of cores and rows as
\* wide as the kernel expects that half precision can count.
THEOREM KernelTypeCorrect ==
    ASSUME Fits, Exact
    PROVE  Spec => []TypeOK
BY AlwaysCorrect, CorrectType, PTL

\* At the end every share is done.
LEMMA DoneIsWritten ==
    ASSUME Controlled, AllDone
    PROVE  written = Batch
<1>1. \A c \in Block : Landed(c) = Share(c)
    <2> SUFFICES ASSUME NEW c \in Block PROVE Landed(c) = Share(c)
        OBVIOUS
    <2>1. b[c] = Share(c) /\ copies[c] = <<>> /\ Len(copies[c]) = 0
        BY DEF AllDone, Controlled, At, Share
    <2>2. Share(c) \in Nat
        BY Shares DEF Controlled
    <2> QED
        BY <2>1, <2>2 DEF Landed
<1>2. ASSUME NEW r \in Batch
      PROVE  r \in written
    <2>1. PICK c \in Block : \E j \in 0 .. Share(c) - 1 : r = Row(c, j)
        BY Shares DEF Controlled
    <2>2. PICK j \in 0 .. Share(c) - 1 : r = Row(c, j)
        BY <2>1
    <2>3. Share(c) \in Nat /\ j < Landed(c)
        BY <1>1, <2>2, Shares DEF Controlled
    <2> QED
        BY <2>2, <2>3 DEF Controlled
<1> QED
    BY <1>2 DEF Controlled

LEMMA CorrectEnd ==
    ASSUME Fits, Exact
    PROVE  Correct => EveryRowExtended
<1> SUFFICES ASSUME Correct, AllDone
             PROVE  availGm = {p[1] * TopK + p[2] : p \in {q \in Batch \X Slot :
                                  q[2] \in Extended(q[1])}}
    BY DEF EveryRowExtended, Extended
<1>1. Tiled /\ Memory /\ written = Batch
    BY DoneIsWritten DEF Correct, Controlled
<1>2. \A r \in Batch : \A i \in Slot : r * TopK + i \in availGm <=> i \in Extended(r)
    BY <1>1 DEF Memory, Now
<1>3. ASSUME NEW a \in availGm
      PROVE  a \div TopK \in Batch /\ a % TopK \in Slot /\ a = (a \div TopK) * TopK + (a % TopK)
    <2>1. a \in 0 .. tiling.batchSize * TopK - 1 /\ tiling.batchSize \in Nat /\ TopK \in Nat
        BY <1>1, BatchCount, TopKAssumption DEF Memory
    <2>2. tiling.batchSize * TopK \in Nat
        BY <2>1
    <2>3. a \in Nat /\ a < tiling.batchSize * TopK
        BY <2>1, <2>2
    <2>4. /\ a \div TopK \in Nat /\ a % TopK \in Slot
          /\ a = (a \div TopK) * TopK + (a % TopK)
        BY <2>3, AddressBack
    <2> DEFINE q == a \div TopK
               i == a % TopK
    <2>5. q \in Nat /\ i \in Nat /\ a = q * TopK + i
        BY <2>1, <2>4 DEF Slot
    <2> HIDE DEF q, i
    <2>6. q < tiling.batchSize
        <3> SUFFICES ASSUME ~(q < tiling.batchSize) PROVE FALSE
            OBVIOUS
        <3>1. TopK * tiling.batchSize <= TopK * q
            BY <2>1, <2>5, Monotone
        <3>2. TopK * tiling.batchSize = tiling.batchSize * TopK /\ TopK * q = q * TopK
            BY <2>1, <2>5
        <3>3. q * TopK \in Nat
            BY <2>1, <2>5
        <3> QED
            BY <2>2, <2>3, <2>5, <3>1, <3>2, <3>3
    <2>7. Batch = 0 .. tiling.batchSize - 1
        BY <1>1, BatchIs
    <2>8. q \in Batch
        BY <2>1, <2>5, <2>6, <2>7
    <2> QED
        BY <2>4, <2>8 DEF q
<1> DEFINE S == {q \in Batch \X Slot : q[2] \in Extended(q[1])}
<1>4. ASSUME NEW a \in availGm
      PROVE  \E p \in S : a = p[1] * TopK + p[2]
    <2>1. /\ a \div TopK \in Batch /\ a % TopK \in Slot
          /\ a = (a \div TopK) * TopK + (a % TopK)
        BY <1>3
    <2>2. <<a \div TopK, a % TopK>> \in S
        BY <1>2, <2>1
    <2> QED
        BY <2>1, <2>2
<1>5. ASSUME NEW p \in S
      PROVE  p[1] * TopK + p[2] \in availGm
    BY <1>2
<1> QED
    BY <1>4, <1>5

\* When a launch is over, every row of the mask is what the comment of the
\* kernel says, for any batch, any number of cores and any inputs.
THEOREM EveryRowIsExtended ==
    ASSUME Fits, Exact
    PROVE  Spec => []EveryRowExtended
BY AlwaysCorrect, CorrectEnd, PTL


-----------------------------------------------------------------------------
(* The parallel blocks implement one atomic extension of each row.         *)

LEMMA SameKernelRow ==
    /\ Launch!Slot = Slot
    /\ \A missCols, availCols, old :
          Launch!KernelRow(missCols, availCols, old) = KernelRow(missCols, availCols, old)
<1>1. Launch!Slot = Slot /\ Launch!Empty = Empty
    BY DEF Launch!Slot, Slot, Launch!Empty, Empty
<1>2. \A row : Launch!EmptyCols(row) = EmptyCols(row)
    BY <1>1 DEF Launch!EmptyCols, EmptyCols
<1>3. \A S : Launch!Cardinality(S) = Cardinality(S)
    BY DEF Launch!Cardinality, Cardinality
<1>4. \A row, i : Launch!EmptyCumsum(row, i) = EmptyCumsum(row, i)
    BY <1>1, <1>3 DEF Launch!EmptyCumsum, EmptyCumsum
<1>5. \A row, s : Launch!SelectEmpty(row, s) = SelectEmpty(row, s)
    BY <1>2, <1>4 DEF Launch!SelectEmpty, SelectEmpty
<1> QED
    BY <1>1, <1>3, <1>5 DEF Launch!KernelRow, KernelRow

\* available_slot_mask, row by row.
MaskNow == [r \in Batch |-> {i \in Slot : r * TopK + i \in availGm}]

LEMMA MaskIs ==
    ASSUME Correct, NEW r \in Batch
    PROVE  MaskNow[r] = {i \in Slot : i \in Now(r)}
BY DEF Correct, Memory, MaskNow

LEMMA InitIsLaunchInit ==
    ASSUME Fits, Exact, Init
    PROVE  Launch!Init
<1>1. Correct /\ Tiled /\ written = {}
    BY InitCorrect DEF Correct, Controlled, Init
<1>2. tiling.batchSize \in 1 .. MaxBatch /\ Batch = 0 .. tiling.batchSize - 1
    BY <1>1, BatchIs DEF Tiled
<1>3. [r \in Batch |-> inputs[r].miss] \in [Batch -> SUBSET Slot]
    BY <1>1, InputsAre
<1>4. [r \in Batch |-> {i \in Slot : r * TopK + i \in availGm}] \in [Batch -> SUBSET Slot]
    OBVIOUS
<1>5. Batch \ written = Batch /\ DOMAIN [r \in Batch |-> inputs[r].old] = Batch
    BY <1>1
<1> QED
    BY <1>2, <1>3, <1>4, <1>5, SameKernelRow DEF Launch!Init

\* The copy that lands is the extension of its row.
LEMMA FinishIsExtend ==
    ASSUME Fits, Exact, Correct, NEW c \in Block, FinishCopy(c)
    PROVE  Launch!Next
<1>1. Correct' /\ UNCHANGED gm /\ Tiled
    BY FinishCorrect DEF FinishCopy, Correct, Controlled
<1>2. PICK r \in Batch \ written :
          /\ written' = written \cup {r}
          /\ availGm' = CopyOutMask(availGm, Offset(r), Extended(r))
          /\ Extended(r) \in SUBSET Slot
    BY FinishCorrect
<1>3. Batch' = Batch /\ inputs' = inputs
    BY <1>1, SameLaunch, SameInputs
<1>4. MaskNow[r] = inputs[r].avail
    <2>1. MaskNow[r] = {i \in Slot : i \in Now(r)}
        BY <1>2, MaskIs
    <2>2. Now(r) = inputs[r].avail /\ inputs[r].avail \in SUBSET Slot
        BY <1>1, <1>2, InputsAre DEF Now
    <2> QED
        BY <2>1, <2>2
<1>5. ASSUME NEW q \in Batch
      PROVE  MaskNow'[q] = IF q = r THEN Extended(r) ELSE MaskNow[q]
    <2>1. \A i \in Slot : q * TopK + i \in availGm'
              <=> IF q = r THEN i \in Extended(r) ELSE q * TopK + i \in availGm
        BY <1>1, <1>2, RowIsWritten
    <2>2. MaskNow'[q] = {i \in Slot : q * TopK + i \in availGm'}
        BY <1>3 DEF MaskNow
    <2>3. MaskNow[q] = {i \in Slot : q * TopK + i \in availGm}
        BY DEF MaskNow
    <2>4. CASE q = r
        BY <1>2, <2>1, <2>2, <2>4
    <2>5. CASE q # r
        BY <2>1, <2>2, <2>3, <2>5
    <2> QED
        BY <2>4, <2>5
<1>6. MaskNow' = [MaskNow EXCEPT ![r] = KernelRow(inputs[r].miss, MaskNow[r], inputs[r].old)]
    <2>1. /\ MaskNow = [q \in Batch |-> MaskNow[q]]
          /\ MaskNow' = [q \in Batch |-> MaskNow'[q]]
        BY <1>3 DEF MaskNow
    <2>2. KernelRow(inputs[r].miss, MaskNow[r], inputs[r].old) = Extended(r)
        BY <1>4 DEF Extended
    <2> QED
        BY <1>2, <1>5, <2>1, <2>2
<1>7. Launch!ExtendRow(r)
    <2>1. (Batch \ written)' = (Batch \ written) \ {r}
        BY <1>2, <1>3
    <2>2. UNCHANGED <<[q \in Batch |-> inputs[q].miss], [q \in Batch |-> inputs[q].old]>>
        BY <1>3
    <2>3. /\ [q \in Batch |-> inputs[q].miss][r] = inputs[r].miss
          /\ [q \in Batch |-> inputs[q].old][r] = inputs[r].old
        BY <1>2
    <2> QED
        BY <1>2, <1>6, <2>1, <2>2, <2>3, SameKernelRow DEF Launch!ExtendRow, MaskNow
<1> QED
    BY <1>2, <1>7 DEF Launch!Next

LEMMA StepIsLaunchStep ==
    ASSUME Fits, Exact
    PROVE  Correct /\ [Next]_vars => [Launch!Next]_Launch!vars
<1> SUFFICES ASSUME Correct, [Next]_vars PROVE [Launch!Next]_Launch!vars
    OBVIOUS
<1>1. ASSUME NEW c \in Block, FinishCopy(c)
      PROVE  Launch!Next
    BY <1>1, FinishIsExtend
<1>2. ASSUME UNCHANGED <<gm, availGm, written>>
      PROVE  UNCHANGED Launch!vars
    <2>1. inputs' = inputs /\ Batch' = Batch /\ availGm' = availGm /\ written' = written
        BY <1>2, SameInputs, SameLaunch
    <2> QED
        BY <2>1 DEF Launch!vars
<1>3. CASE \E c \in Block : BlockStep(c)
    <2>1. UNCHANGED <<gm, availGm, written>>
        BY <1>3 DEF BlockStep, EnterProcess, LoadRow, CountRow, ScanRow, FillAndCopyOut,
                    LeaveProcess
    <2> QED
        BY <1>2, <2>1
<1>4. CASE UNCHANGED vars
    <2>1. UNCHANGED <<gm, availGm, written>>
        BY <1>4 DEF vars, gm
    <2> QED
        BY <1>2, <2>1
<1> QED
    BY <1>1, <1>3, <1>4 DEF Next, Finished

\* Whatever order the blocks and their copies take, the mask only ever changes
\* by whole rows, each extended once: the safety half of ImplementsMaskUpdate.
THEOREM LaunchExtendsRows ==
    ASSUME Fits, Exact
    PROVE  Spec => Launch!Init /\ [][Launch!Next]_Launch!vars
<1>1. Init => Launch!Init
    BY InitIsLaunchInit
<1> QED
    BY <1>1, StepIsLaunchStep, AlwaysCorrect, PTL DEF Spec

\* At the end the host's view of the mask has every row extended.
LEMMA CorrectIsHostView ==
    ASSUME Fits, Exact, Correct, AllDone
    PROVE  MaskNow = CacheMissTopk([r \in Batch |-> inputs[r].miss],
                                   [r \in Batch |-> inputs[r].avail],
                                   [r \in Batch |-> inputs[r].old])
<1>1. Tiled /\ written = Batch
    BY DoneIsWritten DEF Correct, Controlled
<1>2. ASSUME NEW r \in Batch
      PROVE  MaskNow[r] = Extended(r)
    <2>1. inputs[r].avail \in SUBSET Slot
        BY <1>1, InputsAre
    <2>2. EmptyCols(inputs[r].old) \subseteq Slot
        BY DEF EmptyCols
    <2>3. Extended(r) \subseteq Slot
        BY <2>1, <2>2 DEF Extended, KernelRow, SelectEmpty
    <2> QED
        BY <1>1, <1>2, <2>3, MaskIs DEF Now
<1> QED
    BY <1>2 DEF MaskNow, CacheMissTopk, Extended

\* When a launch is over, the rows of available_slot_mask are what the host
\* operator's model takes the launch to be, one application of CacheMissTopk to
\* the three tensors: GetCacheMissTopk may treat the launch as one step.
THEOREM LaunchIsCacheMissTopk ==
    ASSUME Fits, Exact
    PROVE  Spec => [](AllDone =>
               MaskNow = CacheMissTopk([r \in Batch |-> inputs[r].miss],
                                       [r \in Batch |-> inputs[r].avail],
                                       [r \in Batch |-> inputs[r].old]))
<1>1. Correct => (AllDone =>
          MaskNow = CacheMissTopk([r \in Batch |-> inputs[r].miss],
                                  [r \in Batch |-> inputs[r].avail],
                                  [r \in Batch |-> inputs[r].old]))
    BY CorrectIsHostView
<1> QED
    BY <1>1, AlwaysCorrect, PTL
==============================================================================
