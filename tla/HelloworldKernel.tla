--------------------------- MODULE HelloworldKernel ---------------------------
(***************************************************************************)
(* The helloworld operator, z = x + y: the host counts the elements and    *)
(* launches blocks that share them.  A block works on tiles in three       *)
(* stages, the copy in, the addition and the copy out, which its queues    *)
(* let overlap.  A tile is known by the element it starts at.              *)
(***************************************************************************)
EXTENDS Integers, FiniteSets, Functions, Sequences

CONSTANTS
    Word,         \* 2^32
    Shapes,       \* the shapes of x that are offered
    BlockDim,     \* the blocks of the launch, 8
    TileNum,      \* tiles per block and buffer, 8
    BUFFER_NUM    \* the buffers of a queue, 2

ASSUME ParameterAssumption == {Word, BlockDim, TileNum, BUFFER_NUM} \subseteq Nat \ {0}
ASSUME ShapesAssumption == Shapes \subseteq Seq(Nat)

VARIABLES
    shape,   \* the shape of x; never changed
    z,       \* z[a]: the element whose sum is in place a, Stale before any is
    read,    \* read[c]: tiles block c has copied in
    added,   \* added[c]: tiles whose sum is in a buffer of outQueueZ
    wrote,   \* wrote[c]: tiles copied out
    inBuf,   \* inBuf[c][k]: the tile in buffer k of inQueueX and of inQueueY
    outBuf   \* outBuf[c][k]: the tile whose sum is in buffer k of outQueueZ

vars == <<shape, z, read, added, wrote, inBuf, outBuf>>

Stale == -1
Block == 0 .. BlockDim - 1
Buffer == 0 .. BUFFER_NUM - 1

\* The elements of a tensor, and as the host counts them in uint32.
Elements(sh) == 0 .. FoldFunction(LAMBDA a, b : a * b, 1, sh) - 1
TotalLength(sh) == FoldFunction(LAMBDA size, n : (n * (size % Word)) % Word, 1, sh)

BlockLength == TotalLength(shape) \div BlockDim
TileLength  == (BlockLength \div TileNum) \div BUFFER_NUM

\* Mutant: one round of tiles instead of one per buffer.
LoopCountOfTiles == TileNum
LoopCount == TileNum * BUFFER_NUM

\* The first element of tile number i of block c.
Tile(c, i) == BlockLength * c + i * TileLength

Init ==
    /\ shape \in Shapes
    /\ z = [a \in Elements(shape) |-> Stale]
    /\ read = [c \in Block |-> 0] /\ added = read /\ wrote = read
    /\ inBuf = [c \in Block |-> [k \in Buffer |-> Stale]] /\ outBuf = inBuf

\* Mutant: the tensors are not given back to inQueueX and inQueueY.
CopyInUnfreed(c) ==
    /\ read[c] < BUFFER_NUM
    /\ inBuf' = [inBuf EXCEPT ![c][read[c] % BUFFER_NUM] = Tile(c, read[c])]
    /\ read' = [read EXCEPT ![c] = @ + 1]
    /\ UNCHANGED <<shape, z, added, wrote, outBuf>>

\* AllocTensor waits for the buffers of a tile that has been added.
CopyIn(c) ==
    /\ read[c] < LoopCount
    /\ read[c] < added[c] + BUFFER_NUM
    /\ inBuf' = [inBuf EXCEPT ![c][read[c] % BUFFER_NUM] = Tile(c, read[c])]
    /\ read' = [read EXCEPT ![c] = @ + 1]
    /\ UNCHANGED <<shape, z, added, wrote, outBuf>>

\* Mutant: one tensor for the sums, outside any queue.
ComputeUnqueued(c) ==
    /\ added[c] < read[c]
    /\ outBuf' = [outBuf EXCEPT ![c][added[c] % BUFFER_NUM] = inBuf[c][added[c] % BUFFER_NUM]]
    /\ added' = [added EXCEPT ![c] = @ + 1]
    /\ UNCHANGED <<shape, z, read, wrote, inBuf>>

\* DeQue waits for the copies in, AllocTensor for a buffer that was copied out.
Compute(c) ==
    /\ added[c] < read[c]
    /\ added[c] < wrote[c] + BUFFER_NUM
    /\ outBuf' = [outBuf EXCEPT ![c][added[c] % BUFFER_NUM] = inBuf[c][added[c] % BUFFER_NUM]]
    /\ added' = [added EXCEPT ![c] = @ + 1]
    /\ UNCHANGED <<shape, z, read, wrote, inBuf>>

CopyOut(c) ==
    /\ wrote[c] < added[c]
    /\ LET to   == Tile(c, wrote[c])
           from == outBuf[c][wrote[c] % BUFFER_NUM]
       IN  z' = [a \in DOMAIN z |->
                    IF a \in to .. to + TileLength - 1 THEN from + (a - to) ELSE z[a]]
    /\ wrote' = [wrote EXCEPT ![c] = @ + 1]
    /\ UNCHANGED <<shape, read, added, inBuf, outBuf>>

BlockStep(c) == CopyIn(c) \/ Compute(c) \/ CopyOut(c)

AllDone == \A c \in Block : wrote[c] = LoopCount

Finished == AllDone /\ UNCHANGED vars

Next == (\E c \in Block : BlockStep(c)) \/ Finished

\* A stage whose inputs and buffers are there runs.
Spec == Init /\ [][Next]_vars /\ \A c \in Block : WF_vars(BlockStep(c))

-----------------------------------------------------------------------------
(* Correctness.                                                            *)

\* A place of z is stale or has its own sum, at any time: no sum is overtaken
\* in its buffer by the next but one, and no block writes into another's share.
SumsInPlace == \A a \in DOMAIN z : z[a] \in {Stale, a}

\* What the three divisions leave over together is what one division by the
\* number of tiles does, and nothing beyond it is left out: a tensor whose
\* length, counted in uint32, is a multiple of the tiles is complete.
OnlyRemainderLeftOut ==
    AllDone => Cardinality({a \in DOMAIN z : z[a] = Stale})
                   = Cardinality(Elements(shape)) - TotalLength(shape)
                         + (TotalLength(shape) % (BlockDim * LoopCount))

\* Every block ends: its stages never wait for each other's buffers for ever.
EveryBlockEnds == <>AllDone
==============================================================================
