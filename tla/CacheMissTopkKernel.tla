-------------------------- MODULE CacheMissTopkKernel --------------------------
(***************************************************************************)
(* One launch of the cache_miss_topk kernel: the blocks run in parallel,   *)
(* each over its rows of the batch.  The tensors are flat arrays in global *)
(* memory; a row is copied into local memory, counted, scanned, and the    *)
(* result leaves through a queue whose copy to global memory is still      *)
(* under way when the block goes on to its next row.                       *)
(***************************************************************************)
EXTENDS TopkMasks, BatchTiling, Sequences

CONSTANTS
    SEQ_LEN,      \* the row width the kernel is compiled for, 2048
    BUFFER_NUM,   \* the buffers of a queue, 2
    HalfExact,    \* half holds every integer up to this one exactly, 2048
    MaxBatch,     \* bound: the rows of a batch
    MaxCoreNum,   \* bound: the vector cores of the platform
    RowInputs     \* the contents of a row: miss and avail columns, old row

ASSUME SeqLenAssumption == SEQ_LEN \in Nat \ {0}
ASSUME BufferNumAssumption == BUFFER_NUM \in Nat \ {0}

\* A narrower tensor would be read beyond its last row, which is not modelled.
ASSUME WidthAssumption == TopK >= SEQ_LEN

VARIABLES
    inputs,     \* the tensors at launch, row by row; never changed
    tiling,     \* the tiling data
    missGm,     \* cache_miss_token_mask in global memory: the true addresses
    idxGm,      \* topk_indices_old in global memory
    availGm,    \* available_slot_mask in global memory: the true addresses
    pc,         \* pc[c]: where block c is
    b,          \* b[c]: rows of its share block c is past
    loaded,     \* loaded[c]: the row in local memory
    shortage,   \* shortage[c]: numShortage of that row
    results,    \* results[c][k]: what buffer k of resultQueue holds
    copies,     \* copies[c]: copies from resultQueue to global memory under way
    written     \* history: the rows whose result has reached global memory

vars == <<inputs, tiling, missGm, idxGm, availGm, pc, b, loaded, shortage,
          results, copies, written>>

gm    == <<inputs, tiling, missGm, idxGm>>
Block == 0 .. BlockDim(tiling) - 1
Col   == 0 .. SEQ_LEN - 1

-----------------------------------------------------------------------------
(* Global memory.                                                          *)

BatchOf(x) == DOMAIN x

\* A tensor of TopK columns, flat, and a boolean one as its true addresses.
Flat(x, field) ==
    {p[1] * TopK + p[2] : p \in {q \in BatchOf(x) \X Slot : q[2] \in x[q[1]][field]}}

FlatIdx(x) ==
    [a \in 0 .. Cardinality(BatchOf(x)) * TopK - 1 |-> x[a \div TopK].old[a % TopK]]

\* Row batchIdx starts here.
Offset(batchIdx) == U(batchIdx * SEQ_LEN)

\* DataCopy of SEQ_LEN elements from global memory.
CopyInMask(addresses, offset) == {i \in Col : offset + i \in addresses}

CopyInRow(array, offset) == [i \in Col |-> array[offset + i]]

\* DataCopy of SEQ_LEN elements to global memory.
CopyOutMask(addresses, offset, cols) ==
    (addresses \ {offset + i : i \in Col}) \cup {offset + i : i \in cols}

-----------------------------------------------------------------------------
(* The computation of one row.                                             *)

\* Cast and Sum in half precision, read back as int32.  Beyond HalfExact the
\* result depends on the order of the adding: ones added one by one never get
\* past HalfExact, partial sums beyond it are rounded down or up.
HalfSum(cols) ==
    LET n == Cardinality(cols)
    IN  IF n <= HalfExact THEN {n} ELSE HalfExact .. 2 * n

\* Mutant: a column is selected before it is counted.
ScanUncounted(idx, avail, numShortage) ==
    avail \cup {i \in Col : idx[i] = Empty /\
                  Cardinality({j \in 0 .. i - 1 : idx[j] = Empty}) <= numShortage}

\* The loop over the columns: f[i] is cumsum after column i and the columns
\* set in resultLocal so far.
Scan(idx, avail, numShortage) ==
    LET f[i \in -1 .. SEQ_LEN - 1] ==
            IF i = -1 THEN [cumsum |-> 0, result |-> {}]
            ELSE LET isEmpty  == idx[i] = Empty
                     cumsum   == IF isEmpty THEN f[i - 1].cumsum + 1 ELSE f[i - 1].cumsum
                     selected == cumsum <= numShortage /\ isEmpty
                 IN  [cumsum |-> cumsum,
                      result |-> IF i \in avail \/ selected
                                 THEN f[i - 1].result \cup {i} ELSE f[i - 1].result]
    IN  f[SEQ_LEN - 1].result

-----------------------------------------------------------------------------
Init ==
    /\ \E batchSize \in 1 .. MaxBatch, coreNum \in 1 .. MaxCoreNum :
          /\ inputs \in [0 .. batchSize - 1 -> RowInputs]
          /\ tiling = Tiling(batchSize, coreNum)
    /\ missGm = Flat(inputs, "miss")
    /\ idxGm = FlatIdx(inputs)
    /\ availGm = Flat(inputs, "avail")
    /\ pc = [c \in Block |-> "entered"]
    /\ b = [c \in Block |-> 0]
    /\ loaded = [c \in Block |-> <<>>]
    /\ shortage = [c \in Block |-> 0]
    /\ results = [c \in Block |-> [k \in 0 .. BUFFER_NUM - 1 |-> {}]]
    /\ copies = [c \in Block |-> <<>>]
    /\ written = {}

Goto(c, label) == pc' = [pc EXCEPT ![c] = label]

EnterProcess(c) ==
    /\ pc[c] = "entered"
    /\ Goto(c, IF c >= UsedCoreNum(tiling) THEN "done" ELSE "loop")
    /\ UNCHANGED <<gm, availGm, b, loaded, shortage, results, copies, written>>

LeaveProcess(c) ==
    /\ pc[c] = "loop"
    /\ b[c] >= BlockBatches(tiling, c) \/ BatchIdx(tiling, c, b[c]) >= tiling.batchSize
    /\ Goto(c, "done")
    /\ UNCHANGED <<gm, availGm, b, loaded, shortage, results, copies, written>>

\* Mutant: the loop goes on for one row more than the share of the block.
LoadRowOneMore(c) ==
    /\ pc[c] = "loop"
    /\ b[c] <= BlockBatches(tiling, c)
    /\ BatchIdx(tiling, c, b[c]) < tiling.batchSize
    /\ LET offset == Offset(BatchIdx(tiling, c, b[c]))
       IN  loaded' = [loaded EXCEPT ![c] =
                        [miss  |-> CopyInMask(missGm, offset),
                         avail |-> CopyInMask(availGm, offset),
                         idx   |-> CopyInRow(idxGm, offset)]]
    /\ Goto(c, "loaded")
    /\ UNCHANGED <<gm, availGm, b, shortage, results, copies, written>>

\* The three copies into local memory; DeQue waits until each has landed.
LoadRow(c) ==
    /\ pc[c] = "loop"
    /\ b[c] < BlockBatches(tiling, c)
    /\ BatchIdx(tiling, c, b[c]) < tiling.batchSize
    /\ LET offset == Offset(BatchIdx(tiling, c, b[c]))
       IN  loaded' = [loaded EXCEPT ![c] =
                        [miss  |-> CopyInMask(missGm, offset),
                         avail |-> CopyInMask(availGm, offset),
                         idx   |-> CopyInRow(idxGm, offset)]]
    /\ Goto(c, "loaded")
    /\ UNCHANGED <<gm, availGm, b, shortage, results, copies, written>>

CountRow(c) ==
    /\ pc[c] = "loaded"
    /\ \E m \in HalfSum(loaded[c].miss), a \in HalfSum(loaded[c].avail) :
          shortage' = [shortage EXCEPT ![c] = m - a]
    /\ Goto(c, "counted")
    /\ UNCHANGED <<gm, availGm, b, loaded, results, copies, written>>

\* The buffers of a queue are handed out in turn.
ResultBuffer(c) == b[c] % BUFFER_NUM

\* AllocTensor waits for a buffer whose last copy to global memory is over.
ResultBufferFree(c) == \A k \in 1 .. Len(copies[c]) : copies[c][k].buffer # ResultBuffer(c)

\* The scan fills the buffer; the copy to global memory is started, the
\* tensors are given back, and the loop goes on.
FillAndCopyOut(c) ==
    /\ results' = [results EXCEPT ![c][ResultBuffer(c)] =
                      Scan(loaded[c].idx, loaded[c].avail, shortage[c])]
    /\ copies' = [copies EXCEPT ![c] =
                     Append(@, [buffer |-> ResultBuffer(c), row |-> BatchIdx(tiling, c, b[c])])]
    /\ loaded' = [loaded EXCEPT ![c] = <<>>]
    /\ shortage' = [shortage EXCEPT ![c] = 0]
    /\ b' = [b EXCEPT ![c] = @ + 1]
    /\ Goto(c, "loop")
    /\ UNCHANGED <<gm, availGm, written>>

\* Mutant: one tensor for all rows instead of one of the queue for each, so
\* that nothing waits for the copy of the row before last.
ScanRowUnqueued(c) == pc[c] = "counted" /\ FillAndCopyOut(c)

\* Mutant: FreeTensor of the result is forgotten.
ScanRowUnfreed(c) ==
    /\ pc[c] = "counted"
    /\ b[c] < BUFFER_NUM
    /\ FillAndCopyOut(c)

\* A row is scanned as soon as there is a tensor for its result.
ScanRow(c) ==
    /\ pc[c] = "counted"
    /\ ResultBufferFree(c)
    /\ FillAndCopyOut(c)

\* The copy engine of a core finishes its copies in the order of their start.
FinishCopy(c) ==
    /\ copies[c] # <<>>
    /\ LET copy == Head(copies[c])
       IN  /\ availGm' = CopyOutMask(availGm, Offset(copy.row), results[c][copy.buffer])
           /\ written' = written \cup {copy.row}
    /\ copies' = [copies EXCEPT ![c] = Tail(@)]
    /\ UNCHANGED <<gm, pc, b, loaded, shortage, results>>

BlockStep(c) ==
    \/ EnterProcess(c)
    \/ LoadRow(c)
    \/ CountRow(c)
    \/ ScanRow(c)
    \/ LeaveProcess(c)

AllDone == \A c \in Block : pc[c] = "done" /\ copies[c] = <<>>

\* The launch is over.
Finished == AllDone /\ UNCHANGED vars

Next ==
    \/ \E c \in Block : BlockStep(c) \/ FinishCopy(c)
    \/ Finished

\* A launched block runs to its end, and a copy that was started finishes.
Spec ==
    /\ Init
    /\ [][Next]_vars
    /\ \A c \in 0 .. MaxCoreNum - 1 :
          /\ WF_vars(c \in Block /\ BlockStep(c))
          /\ WF_vars(c \in Block /\ FinishCopy(c))

-----------------------------------------------------------------------------
(* Correctness.                                                            *)

Batch == BatchOf(inputs)

\* Every variable has its type.
TypeOK ==
    /\ inputs \in [Batch -> RowInputs]
    /\ availGm \subseteq 0 .. Cardinality(Batch) * TopK - 1
    /\ pc \in [Block -> {"entered", "loop", "loaded", "counted", "done"}]
    /\ \A c \in Block :
          /\ b[c] \in 0 .. BlockBatches(tiling, c)
          /\ pc[c] \in {"loaded", "counted"} =>
                /\ loaded[c].miss \subseteq Col
                /\ loaded[c].avail \subseteq Col
                /\ DOMAIN loaded[c].idx = Col
          /\ shortage[c] \in -SEQ_LEN .. SEQ_LEN
          /\ results[c] \in [0 .. BUFFER_NUM - 1 -> SUBSET Col]
          /\ \A k \in 1 .. Len(copies[c]) :
                copies[c][k] \in [buffer : 0 .. BUFFER_NUM - 1, row : Batch]
    /\ written \subseteq Batch

\* The row block c works on, and those on their way to global memory.
InHand(c) ==
    {copies[c][k].row : k \in 1 .. Len(copies[c])}
        \cup (IF pc[c] \in {"loaded", "counted"} THEN {BatchIdx(tiling, c, b[c])} ELSE {})

\* The tiling gives no row to two blocks and none to a block twice: no row is
\* read by one while another block, or an earlier round, writes it.
NoRowRace ==
    \A c \in Block :
        /\ InHand(c) \cap written = {}
        /\ \A d \in Block \ {c} : InHand(c) \cap InHand(d) = {}

\* After the launch every row of available_slot_mask is what the kernel's
\* comment says: the available slots and the first numShortage empty ones.
EveryRowExtended ==
    AllDone =>
        availGm = {p[1] * TopK + p[2] : p \in {q \in Batch \X Slot :
            q[2] \in KernelRow(inputs[q[1]].miss, inputs[q[1]].avail, inputs[q[1]].old)}}

Launch == INSTANCE MaskUpdate WITH
    miss <- [r \in Batch |-> inputs[r].miss],
    old  <- [r \in Batch |-> inputs[r].old],
    mask <- [r \in Batch |-> {i \in Slot : r * TopK + i \in availGm}],
    left <- Batch \ written

\* The parallel blocks, with copies still under way, implement one atomic
\* extension of each row, and sooner or later every row has had its own.
ImplementsMaskUpdate == Launch!Spec

\* Every block ends: none waits for ever for a buffer of resultQueue.
EveryBlockEnds == <>AllDone
==============================================================================
