----------------------------- MODULE BatchTiling -----------------------------
(***************************************************************************)
(* How the host splits the rows of a batch over the vector cores           *)
(* (cache_miss_topk) and which rows a core takes (Process), in uint32      *)
(* arithmetic.                                                             *)
(***************************************************************************)
EXTENDS Integers

CONSTANT Word   \* 2^32

ASSUME WordAssumption == Word \in Nat \ {0}

U(x) == x % Word

CeilDivU(a, b) == U(a + b - 1) \div b

Tiling(batchSize, coreNum) ==
    LET batchesPerCore == CeilDivU(batchSize, coreNum)
        usedCoreNum    == CeilDivU(batchSize, batchesPerCore)
        formerNum      == U(usedCoreNum - 1)
        tail           == U(batchSize - U(formerNum * batchesPerCore))
    IN  [batchSize    |-> batchSize,
         formerNum    |-> formerNum,
         formerLength |-> batchesPerCore,
         tailNum      |-> 1,
         tailLength   |-> IF tail <= 0 /\ formerNum > 0 THEN batchesPerCore ELSE tail]

BlockDim(t) == U(t.formerNum + 1)

UsedCoreNum(t) == U(t.formerNum + t.tailNum)

BlockBatches(t, blockIdx) ==
    IF blockIdx = U(UsedCoreNum(t) - 1) THEN t.tailLength ELSE t.formerLength

\* Mutant: a block starts after blocks of the length of the last one.
StartBatchOfTail(t, blockIdx) == U(blockIdx * t.tailLength)

StartBatch(t, blockIdx) == U(blockIdx * t.formerLength)

BatchIdx(t, blockIdx, b) == U(StartBatch(t, blockIdx) + b)

\* The loop of Process takes row number b of the block: the share of the block
\* is not used up, and neither this row nor an earlier one ended the loop.
Takes(t, blockIdx, b) ==
    /\ b < BlockBatches(t, blockIdx)
    /\ \A a \in 0 .. b : BatchIdx(t, blockIdx, a) < t.batchSize

BlockRows(t, blockIdx) ==
    {BatchIdx(t, blockIdx, b) :
        b \in {a \in 0 .. BlockBatches(t, blockIdx) - 1 : Takes(t, blockIdx, a)}}
==============================================================================
