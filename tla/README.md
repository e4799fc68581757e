# TLA+ models of get_topk_ascendC

The repository is a torch extension for Ascend NPUs. Its one operator with state
is `get_cache_miss_topk_indices`: for sparse attention, it keeps a per-request
cache of the key/value tokens that the last step selected, finds out which of
the newly selected tokens are missing and which slots of the cache may take
them. This directory specifies that operator and the AscendC kernel it launches,
the macros through which every operator reaches the device (`EXEC_NPU_CMD`,
`EXEC_KERNEL_CMD`), the size computation of `avg_pool3d` and the `helloworld`
kernel; it checks them with TLC on small instances and proves theorems about
them with TLAPS for every value of the constants.

Paths below are relative to the root of the repository. `HOST` is
`csrc/ops/cache_miss_topk/op_host/cache_miss_topk.cpp`, `KERNEL` is
`csrc/ops/cache_miss_topk/op_kernel/cache_miss_topk.cpp` and `ACLNN` is
`csrc/utils/torch_aclnn_helper.h`.

## 1. Inventory

| component | source | state | operations | module |
|---|---|---|---|---|
| host operator `get_cache_miss_topk_indices` | HOST 65-128 | `last_step_topk_indices` (lives across calls), `topk_indices` (in/out), masks and load list of one call | check shapes, offset the ids, two set-difference masks, launch, `masked_select`, scatter into the result, scatter into the history, take the offset off | `GetCacheMissTopk`, `TopkMasks` |
| tiling and launch `cache_miss_topk` | HOST 19-63 | none | split the rows over the vector cores, launch | `BatchTiling`, `GetCacheMissTopk` |
| kernel `cache_miss_topk` | KERNEL | rows in local memory, the buffers of four queues, `available_slot_mask` in global memory | per block: loop over rows, copy in, count in half precision, scan, copy out | `CacheMissTopkKernel`, `BatchTiling`, `TopkMasks` |
| generated launch stub | build/auto_gen/no_workspace_kernel/host_stub.cpp | handle of the registered binary | register at load, launch, profile | `LaunchResult` of `GetCacheMissTopk`, `ConsumeDropped` of `ExecNpuCmd` |
| `EXEC_NPU_CMD` | ACLNN 200-466, 516-566 | converted handles, huge-memory context, workspace tensor, executor; task queue and stream outside | convert, get workspace size, allocate, queue, run, release | `ExecNpuCmd`, `TensorProgram` |
| lookup of aclnn functions | ACLNN 104-141, 517-525 | static library handles and function addresses | open a library once, search custom then standard library | `OpApiLookup` |
| `EXEC_KERNEL_CMD` | csrc/utils/torch_kernel_helper.h 40-79 | the captured addresses | capture, queue, launch, drop the result | `ExecNpuCmd` |
| `avg_pool3d` | csrc/aclnn/avg_pool3d.cpp | none | check the arguments, output size, trim it, launch | `AvgPool3d`; the launch is `ExecNpuCmd`'s |
| `helloworld` | csrc/ops/helloworld | element count, buffers of three queues | share the elements over 8 blocks of 16 tiles; copy in, add, copy out | `HelloworldKernel` |
| operator registration | csrc/register.cpp, csrc/ops.h | the dispatcher's | schema and implementation | no: declarations only |
| build and packaging | build.sh, csrc/CMakeLists.txt, python/ | none | | no: nothing at run time |
| tests and benchmark | tests/ | none | | no: read for inputs and reference results |

Interaction. The caller (an inference engine) selects top-k token positions per
request and calls the operator with the row block of the batch. The host
operator runs tensor operations on one stream, in order, so that its statements
are steps of one sequential process; inside it the launched kernel is a set of
blocks that run in parallel on the vector cores and share the tensors in global
memory. After the call a loader (outside the repository) copies the tokens that
`topk_indices` names into the slots of `topk_buffer` (the name is HOST line
79's). Every statement of an operator that reaches the device does so through
`EXEC_NPU_CMD` or `EXEC_KERNEL_CMD` (or torch's own operators, which work the
same way): the host thread puts a closure into the task queue of torch_npu, the
queue's thread calls it, and what it calls puts work on the device stream. The
three run at their own pace; only a read of a tensor waits for all of it. The
host operator's model relies on that order being invisible, and `ExecNpuCmd` is
where it is shown.

`register.cpp` exports `get_cache_miss_topk_indices`, `avg_pool3d` and
`helloworld` but not `cache_miss_topk` itself, so the kernel never sees masks
other than those the host computes from two rows.

What is hard. The history is a mirror of a buffer that somebody else fills. It
is right only if, call after call, each row of the flattened scatter has exactly
as many slots as misses; one slot too many in one row shifts the tokens of every
later row. That balance depends on the previous calls of the same row
(protocol), on the kernel's off-by-one at `cumsum <= numShortage` (numeric
edge), on the tiling covering each row exactly once (numeric edge,
interleaving), on the reuse of the two result buffers while a copy is under way
(ordering), and on no call failing between the commit of the history and the
return of the load list (partial failure). Below it, memory is given up by the
host before the device has used it: the workspace of a call dies before its
closure is queued, and the caller may drop a tensor whose address a closure
holds (stale state). Handles are made by one thread and destroyed by another,
after the failure points of both (interleaving, partial failure). `PROJECT.json`
lists each hazard with its line and the properties that watch it.

## 2. Modules

### TopkMasks: the data operations
A row is a function on `Slot == 0 .. TopK - 1`; a boolean mask is the function
from a row to its true columns. `DiffCols`/`GetSetDiffMask` are
`get_set_diff_mask`; `EmptyCumsum`, `SelectEmpty` and `KernelRow` are the
kernel's comment and loop as sets (KERNEL 98-133); `Cells`, `Rank`,
`MaskedSelect` and `MaskedScatter` are torch's row-major semantics, in which the
k-th true cell of the whole tensor meets the k-th element. A mask with more true
cells than the source has elements reads past the end; the cell then gets the
constant `Junk`.

### SlotCache: what the operator promises
The abstract specification: `topk_buffer` is a cache with `TopK` slots per row.
A batch is asked for (`Ask`), then its rows hold exactly the wanted pages, each
once, the pages that were there have not moved, and no other row has changed
(`Serve`, one step), or nothing has happened (`Abort`).

### GetCacheMissTopk: the operator and the loop around it
One action per group of statements that another party could observe or at which
the call could stop: `Call` and `Reject` (arguments and checks), `ComputeMasks`,
`LaunchKernel`, `SelectAndScatter`, `RecordHistory`, `Return`, `Raise` (an
exception after any step in `RaiseAt`), `Load` (external). `LaunchResult` is
what the launch makes of the mask: `CacheMissTopk`, or nothing when the binary
was not `Registered`. `pc` is the last step that is complete. Locals (`new`,
`miss`, `avail`, `toLoad`) are `Dead` when no call is in progress; `asked` is a
history variable that keeps the caller's `topk_indices`, which the call
overwrites.

The caller is external. A row of `topk_indices` holds each token at most once
(`InputRow`) and a batch has each request at most once (`ReqIds`). The code also
relies on something it states nowhere: with `e_n` and `e_o` the numbers of -1 in
the new and in the old row, it is correct if `e_n <= e_o` or `e_o = 0`
(`PadOK`). A request whose context grows obeys it. `PadDiscipline = TRUE`
restricts `Call` to such batches; `FALSE` lets everything in and is used in the
run that shows what then goes wrong. `HOST` line 110-112 explains the kernel by
sequences shorter than 2048 tokens, which is the case `e_o > 0`.

The refinement mapping reads `last_step_topk_indices` through `Decode` (an id
back to request and token) as the slots, and the batch as asked for until
`RecordHistory`.

### BatchTiling: rows to blocks
The host's tiling and the kernel's share of it in arithmetic modulo `Word`
(2^32). `BlockRows(t, c)` is the set of rows block `c` processes.

### CacheMissTopkKernel and MaskUpdate: the launch
Global memory is flat: a mask is the set of its true addresses and a row is
addressed by `batchIdx * SEQ_LEN`, while the host's tensors have `TopK` columns.
A block is `entered`, `loop`, `loaded`, `counted` or `done`; `LoadRow` is the
three copies up to their `DeQue`, `CountRow` the two half-precision sums,
`ScanRow` the loop, the start of the copy out and the release of the local
tensors, `FinishCopy` the arrival of the copy in global memory. Two facts about
AscendC are modelled from their use, as external: a queue hands its `BUFFER_NUM`
buffers out in turn and `AllocTensor` waits until the last copy from that buffer
is over; the copies of a core arrive in the order in which they were started.
Half precision holds integers up to 2048 exactly; above it `HalfSum` is any
number that some order of adding may give (a running sum sticks at 2048). Input queues always have a free buffer when a
row starts (they are freed in the same iteration that takes them), so they need
no state.

`MaskUpdate` is the launch as the host sees it: every row extended once, as a
whole, in any order, and none left out; `LaunchKernel` of `GetCacheMissTopk` is
its end result. So the two halves of the project meet at `KernelRow`.

### AvgPool3d
`Init` is any call: an input of any extents (zero included) and any lists of
integers. `Generalize` expands the lists and checks their elements, `OutputSize`
divides and checks that the size is positive, `TrimOutput` is what `ceil_mode`
does afterwards; `thrown` is an exception. `Reads` is what the code reads of a
list: the code checks only that `kernel_size` is not empty, so that of a list of
two elements, or an empty padding, it reads past the end, where it finds one of
`Beyond` or ends the process (`Fault`). C++ division is `Quot`, which rounds
towards zero, whatever the signs. `Proper` is what a dimension needs for its
windows to mean something, and what PyTorch requires and this code does not
check: an extent, a kernel and a stride of at least one. The properties of the
windows are about proper dimensions, also of calls in which others are improper.
Those calls get a result: a kernel of zero with stride 1 and padding 0 passes
every check and has one window more than the input has elements, none of which
covers any; and a `kernel_size` of two elements passes, although the message of
its check (`csrc/aclnn/avg_pool3d.cpp:89`) asks for one or three.

### ExecNpuCmd and TensorProgram
A tensor is a block of device memory (`where`) as long as the host has it; the
allocator is stream-ordered: `Free` is every block no tensor has *now*, used by
queued commands or not. An operation is an aclnn function (`Function`) or the
launch of a kernel. `Convert` and `ConvertThrows` are ACLNN 526-536,
`GetWorkspaceSize` 537-539 with its check, `AllocWorkspace` 540-546: the command
keeps the address of a block that is free again when the action ends.
`KernelCmd` is `EXEC_KERNEL_CMD` up to `cmd.Run()`, and `Run` is that call in
both macros: it waits for room, or throws after a failure without reaching
`UnInitHugeMemThreadLocal`. `Consume`, `ConsumeFails` and `ConsumeDropped` are
the closures, called by the queue's thread: success, an aclnn function that
returns an error (the `TORCH_CHECK` of 551 throws before anything is released),
and a kernel launch whose error nobody sees. `Device` does the first command of
the stream; it scratches the workspace. `Sync`/`FinishSync` is a read by the
host. Queue, allocator and stream are external, modelled from their use; the
addresses and the order are the code's.

Which arguments of a function become handles (`made`) is any subset of its
`Signature`: an argument makes none when its create function is missing (ACLNN
258-260), when it is an empty optional (344-366) or a scalar of a type that has
none (289-291). A handle whose destroy function is missing (397-399 and the
like) stays for ever; those that can be destroyed are `Destroyable`. `handles`
counts the handles of each argument. `due` is a history variable, device memory
before each command still to run and after the last.

`TensorProgram` is what a caller expects: tensors that come into being with any
contents (`New`) and go (`Drop`), operations that take effect one after the other
in the order of the calls (`Exec`), reads that return the value (`Read`). A
tensor that exists changes its value by `Exec` alone, so that a command that
leaves anything else in its output is no step of the program. The refinement
mapping gives a tensor the value its block will have when everything handed over
so far has run; after a failure nothing is promised (`Lose`).

### OpApiLookup
The static variables of `EXEC_NPU_CMD` (the addresses of `aclnnX` and
`aclnnXGetWorkspaceSize`, one pair per call site) and of `GetOpApiFuncAddr` (the
library handles) under C++'s rule for function-local statics: the first thread
initialises, others wait. A thread comes to an address (`Reach`, `NextStatic`,
`Check`), asks for a library handle, which is another static it may have to wait
for (`OpenLibrary`, `FinishOpen`), and searches the custom library and then the
standard one (`SearchCust`, `SearchOpApi`). `Exports` says for each of the two
functions by itself in which library `dlsym` finds it. `Install` (external) makes
a library appear in the middle.

### HelloworldKernel
`TotalLength` is the host's product in uint32, `BlockLength`, `TileLength` and
`LoopCount` the kernel's three divisions and its loop. The stages of a block
overlap as far as the queues let them: `CopyIn` needs a buffer whose tile has
been added, `Compute` a tile that is there and a buffer that was copied out,
`CopyOut` a sum. A sum is known by the element it is the sum of, so that an
overtaken buffer shows as a wrong element in `z`.

### MC modules
`MCGetCacheMissTopk`, `MCCacheMissTopkKernel`, `MCAvgPool3d`, `MCExecNpuCmd`,
`MCOpApiLookup` and `MCHelloworldKernel` define the small sets and operators that the `.cfg`
files give to the constants.

## 3. Properties and runs

| property | says |
|---|---|
| `WantedTokensResident` | after the loads, the rows of the batch hold every page asked for |
| `HistoryMirrorsBuffer` | between calls the history claims nothing its slot does not hold, calls that failed before they wrote the history included |
| `SlotsSuffice` | after the kernel each row has as many slots to fill as tokens to load |
| `EachTokenHasOneSlot` | a wanted token is either kept in its slot or loaded into exactly one, and nothing else is loaded |
| `ImplementsSlotCache` | the history, decoded, is a behaviour of `SlotCache` |
| `NoRowRace` | no row is in the hands of two blocks, nor processed again after its result arrived |
| `EveryRowExtended` | after the launch `available_slot_mask` is what the kernel's comment says |
| `ImplementsMaskUpdate` | the parallel launch, with copies under way, is a behaviour of `MaskUpdate` (fairness included) |
| `EveryBlockEnds` | the launch ends (both kernels): no block waits for ever for a buffer |
| `EveryWindowTouchesInput` | along a proper dimension no window of the pooling covers padding alone |
| `NoWindowLeftOut` | one window more would not fit, or in `ceil_mode` cover nothing new |
| `AgreesWithTorch` | if all dimensions are proper the output has the size PyTorch computes, and is rejected when PyTorch rejects it |
| `FittingCallsAgree` | `AgreesWithTorch`, unless a window is larger than the padded input and the division leaves a remainder |
| `ImplementsTensorProgram` | queue, stream, workspaces and reused memory never show in a value or a read |
| `HandlesMatchCalls` | a handle lives until its function has been called on the queue's thread, and unless something failed not longer |
| `EveryCallEnds` | every call, a kernel launch and a read included, comes back, if with an exception |
| `PairFromOneLibrary` | `aclnnX` and `aclnnXGetWorkspaceSize` come from one library, or both are missing, if no library exports one of the two alone |
| `AddressesAreCurrent` | a static address is what a lookup would find now |
| `EveryLookupEnds` | every lookup ends, through the waits for addresses and library handles that others initialise |
| `SumsInPlace` | at any time, an element of `z` is stale or has its own sum |
| `OnlyRemainderLeftOut` | what `helloworld` leaves out is the remainder modulo the tiles, and what the uint32 count lost |

| run | bounds | shows |
|---|---|---|
| `two_rows` | 2 rows of 2 slots, tokens 0..1, 2 requests, any padding, batches of 0, 1, 2 rows, exceptions before the history is written | all properties of the operator, over every sequence of calls, in each row and across the rows of the flattened scatter |
| `kernel_batch` | 1..5 rows of 2 columns, 1..4 cores, two row contents, one of them with the largest count | every tiling up to that size, all interleavings |
| `exec_npu_cmd` | 2 tensors, 2 blocks, a function with an argument that may become a handle and a kernel launch, queue and stream of 1, calls until the second exception | commands on memory that was given up and given out again, failures at every point and the calls after them, handles, liveness |
| `op_api_lookup` | 3 threads, 3 functions (in both libraries, in the standard one, in the standard one with a half in the custom one) | lookups that wait for each other at addresses and at library handles, and race with the installation of a library |
| `helloworld` | 2 blocks of 2 x 2 tiles, 11 shapes, `Word = 32` | shapes that are empty, smaller than the tiles, with and without remainder, larger than a word |
| `reused_row` (violation) | as `two_rows`, `PadDiscipline = FALSE` | a row handed to a request with more padding leaves excess slots, and tokens go to the wrong row |
| `long_context` (violation) | token positions up to `ReqStride` | a position of 1 << 16 has the id of token 0 of the next request |
| `no_binary` (violation) | `Registered = FALSE`, padded rows | the launch reports success and does nothing |
| `late_raise` (violation) | exceptions after any step | the history is committed before the load list is returned |
| `kernel_wide_row` (violation) | rows of 3 columns, `SEQ_LEN = 2` | the kernel ignores the width that the host accepts |
| `avg_pool3d` | lists of 0 to 4 elements, extents 0 to 6, kernels -1 to 4, strides -2 to 4, paddings -1 to 2; 0 or 2 past the end of a list | the properties of the size, with and without a remainder, for kernels that fit and that do not, along proper dimensions next to improper ones |
| `avg_pool3d_oversized` (violation) | extents 1 and 2, kernels and strides 2 and 4 | a window larger than the padded input passes the check for a positive size |

Why the bounds are enough. The operator treats ids only by equality and -1, and
every decision is local to a row except the scatter's walk: with two slots and
two tokens per request, a row is full, padded or empty, its tokens hit, miss or
are replaced by those of another request, and two rows are what a displacement
in the walk needs. The history makes calls of any number equivalent to a walk
over its finitely many contents, all of which TLC visits; no run bounds the
number of calls. Wider rows are covered by the theorems, which hold for every
`TopK`. In the kernel, five rows over four cores include an equal split, a
shorter last block, fewer blocks than cores and three rows for one block, which
is what the reuse of two buffers needs. `Word = 64` is above every sum that
occurs; what happens near 2^32 is covered by the theorems of
`BatchTilingProofs`. `HalfExact = SEQ_LEN` mirrors 2048 = 2^11, and a row that
misses all its tokens counts up to it. In
`cmt_two_rows.cfg`, `ReqStride = 2` is one more than the last token, as tight as
1 << 16 allows.

In `exec_npu_cmd`, a queue and a stream of one hold a command each while the
host prepares the next, which is three parties at different places, and make
both fill up; two blocks for two tensors are full or let a workspace take the
block of a tensor just dropped. The two operations flip and copy a bit, so that
one that is lost, repeated or overtaken changes a result. `MaxThrows` stops the
caller after two exceptions, so that a call follows the first (handles that leak
would make the space infinite; for the same reason every handle of the run is
`Destroyable`); `TypeOK`, `HandlesMatchCalls` and the refinement are proved for
any number and any `Destroyable`. Three threads in `op_api_lookup` make the
longest wait there is: one at an address that a second searches, which waits for
a third in `dlopen`; there are two libraries, so that no longer one adds
anything. The arguments of `avg_pool3d` reach both sides of every comparison the
code makes and each residue of small divisions; the theorems cover the rest.
`helloworld` has two blocks and four tiles per block instead of eight and
sixteen: a block's third tile reuses the first buffer, its fourth is the last.
The real numbers, and 2^32 for the word, are instances of the theorems.

Deadlock is checked in every run: a call can always be made until two have thrown,
and even then a tensor can be created or dropped; a finished launch is the
explicit `Finished`.

Fairness. A launched block of either kernel runs to its end and a copy that was
started arrives (weak fairness per block and per copy engine); the host waits
for its stream before it uses the masks, and blocks do not wait for each other.
In `ExecNpuCmd` a call that was begun goes on (`HostStep`), the queue's thread
calls closures until one fails (`Consume`), and the device works through its
stream (`Device`): three threads that run. In `OpApiLookup` each thread that is
in a lookup goes on when it can (weak fairness per thread): the operating system
schedules it, `dlopen` returns, and C++ wakes those that wait for a static once
it is initialised, after which it stays so. Nothing obliges the caller to call,
a closure to fail, a launch to be dropped or a library to be installed; the
operator has no fairness.

## 4. Proofs

TLAPS checks these for every value of the constants that meets the named
`ASSUME`s. A theorem that needs more says so in its own `ASSUME`.

### Data operations and tiling

- `TopkMasksProofs`: the row-major walk. `CellOrder` (a strict order on the
  cells), `RankGrows` and `RankReached`: `Rank` numbers the true cells of a mask
  from 1 to their count without gaps, so that the `CHOOSE` in `MaskedSelect` is
  never empty-handed (`MaskedSelectIs`) and the k-th element of the load list is
  the k-th missing token. `MaskedScatterType`: a scatter keeps the shape,
  whatever the mask.
- The same module, one row, then the flattened batch. `SelectEmptyCount`: the
  kernel selects `s` columns when at least `s` are empty. `MatchedCount`: for
  rows without repetition the hits of the new row in the old one and of the old
  row in the new one are equally many. Together, under `PadOK`, they give
  `KernelRowBalances`: as many slots as misses. `ScatterIsRowLocal`: when every
  row balances, the k-th slot of row r meets the k-th miss of row r, in spite of
  the flattening. `RowServed`: a row served that way holds each wanted id in
  exactly one slot and has moved no hit.
- `BatchTilingProofs`: `TilingCovers` says that, if the batch and the cores fit
  in a word together, no subtraction or addition of the tiling wraps, the blocks
  before the last are full, and the last takes between one and `formerLength`
  rows; `BlocksPartitionBatch` that the blocks' shares are disjoint and make up
  the batch. The proof goes from Euclid's lemma for `\div` (`DivFact`) and "no
  wrap" facts for each intermediate to an interval per block.

### The operator

All in `GetCacheMissTopkProofs`.

- `TypeCorrect == Spec => []TypeOK`, without the
  caller's discipline and with or without a kernel. `TypeOK` is inductive; each
  action has a lemma of its own.
- Inductive invariant `Exact`. No safety property is inductive: `SlotsSuffice` speaks of masks whose worth depends on the history,
  and the history's on all earlier calls. `Exact` adds that history rows never
  repeat an id, that the batch does not either, that `PadOK` still holds while
  the batch is unserved, and what each local is as a function of the batch and
  the history. `HistoryDistinct` is preserved because the row was served
  exactly, which needs the balance, which needs `HistoryDistinct`: the two go
  round the loop of calls together. `SlotsAlwaysSuffice` follows.
- `Mirrored` extends it by the buffer: an id in the history is in its slot,
  except for the batch between `RecordHistory` and `Load`, where the load list
  holds what is missing. It gives `HistoryAlwaysMirrors` and, with injective ids
  (`IdsAreUnique`), `WantedTokensAlwaysResident` and
  `EachTokenAlwaysHasOneSlot`.
- The refinement, `OperatorImplementsCache`. `RecordHistory` maps
  to `Serve`, `Call` to `Ask`, an exception before the history is written to
  `Abort`, and the rest to stutters; `DecodeId` shows that an id is read back as
  the request and token it was made of.

The extra assumptions, each with a run in which a property fails without it:

| assumption | means | needed by | run without it |
|---|---|---|---|
| `Supported`: `PadDiscipline` | `PadOK` holds for every row of every batch | all but `TypeCorrect` | `reused_row` |
| `Supported`: `Registered` | the kernel runs | all but `TypeCorrect` | `no_binary` |
| `FailsEarly` | no exception after `RecordHistory` | `HistoryAlwaysMirrors`, `WantedTokensAlwaysResident`, `EachTokenAlwaysHasOneSlot` | `late_raise` |
| `InRange` | token positions are below `ReqStride` | `WantedTokensAlwaysResident`, `EachTokenAlwaysHasOneSlot`, the refinement | `long_context` |

### avg_pool3d

`AvgPool3dProofs`, for any input and any lists of integers. The windows of the
result (`WindowsAlwaysTouchInput`, `NoWindowEverLeftOut`) are right along every
proper dimension that passes the checks, whatever the others hold and even where
the size differs from PyTorch's; `FittingSizeAgrees` says where it does not
differ (`SameRounding`: the first window fits the padded input, or the division
leaves no remainder; `avg_pool3d_oversized` is the run without it). The steps of
the call are sequential, so that the invariant `Sized` only carries from one step
to the next what the checks leave of a dimension (`Basic`) and the formula its
size came from; the work is in `FloorWindows` and `CeilWindows`, from the
two-sided bounds of `QuotFact` and `CeilDivFact`, and in `FittingSize`, where the
two roundings meet in the one quotient that `DivIs` admits.

### The kernel

`CacheMissTopkKernelProofs` is about a launch over any batch, with any number of
cores, all interleavings.

- `Controlled` says where the blocks are: the copies under way of a block are
  those of its last rows, in order, and the rows written are exactly the first
  rows of each share. With `BlocksPartitionBatch` in the form of `Shares` (row
  `j` of block `c` is no other row of any block, and every row is one) it gives
  `NoRowEverRaced`. `NoRowRace` alone is not inductive: it does not say which
  rows a block goes on to.
- `ScanIsKernelRow`: the loop, a recursive function, is `KernelRow`. The
  function with the closed form satisfies the recursion, and a smallest column
  where another function that satisfies it differs would contradict the step
  (`Smallest`).
- `Correct` adds the contents: global memory holds the extended row once its
  copy has landed and the input before, a loaded row is that of the launch, and
  each buffer whose copy is under way holds the row it is copied to;
  `ResultBufferFree` is what keeps the last of these when a buffer is filled. It
  gives `KernelTypeCorrect`, `EveryRowIsExtended` and `LaunchExtendsRows`, the
  step-by-step half of `ImplementsMaskUpdate`: `FinishCopy` is `ExtendRow`, the
  rest stutters.
- `LaunchIsCacheMissTopk` closes the gap to the operator: the mask that a
  finished launch leaves, read row by row, is `CacheMissTopk` of its three
  inputs, which is what `LaunchResult` of `GetCacheMissTopk` puts in one step.

Assumptions: `Fits`, batch and cores together, and twice the batch, fit in a
word; `Exact` (for all but `NoRowEverRaced`), rows are `SEQ_LEN` wide
(`kernel_wide_row` is the run without it), half precision counts that far, and
the addresses of the batch fit in a word.

### EXEC_NPU_CMD

`ExecNpuCmdProofs`, for any tensors, blocks, operations and capacities, and any
number of exceptions.

- `Sound`, inductive: types, no two tensors in one block, and for each argument
  at least as many handles as the queue and the host refer to, and of one that
  can be destroyed exactly as many while nothing has failed. It gives `CallTypeCorrect` and
  `HandlesAlwaysMatchCalls`. `TypeOK` alone does not carry over a `Consume`,
  which must not destroy more handles of an argument than there are.
- `Traced` adds `Images`: `due` is one longer than the commands under way,
  starts with device memory and goes on with the effect of one command after the
  other. So a command that is queued has its effect on the last image alone
  (`EnqueueIsExec`): the block it writes belongs to a tensor now, the workspace
  to none, because the host has not given it out between `AllocWorkspace` and
  `Run`. A read finds nothing under way and the last image in memory
  (`SyncIsRead`). `CallsImplementProgram` follows.

`Traced` shows where the early end of `workspace_tensor` matters: the block is
free when the command is queued, and safe because whoever gets it later queues
later.

### The lookup of aclnn functions

`OpApiLookupProofs`, for any threads and functions, any contents of the two
libraries, and libraries installed at any time.

- `Looked`, inductive: types, `Justified`, `PassedOver`, and who is in `dlopen`.
  `AddressesAreCurrent` says what an address is worth in the present state, but
  not why it stays so when a handle changes: an address in the standard library
  would be outdated by the custom library if that could still be opened.
  `Justified` says that it cannot: every library before the one that was chosen
  was asked for and its handle settled. `PassedOver` carries the same through the
  two halves of a search. `AddressesAlwaysCurrent` follows, and
  `PairAlwaysFromOneLibrary`: what two justified addresses say of the libraries
  is the same if the libraries treat the two functions alike (`Whole`), and
  without that it is not, as the half-exported function of the run shows.
- `LookupsNeverDeadlock`, the safety half of `EveryLookupEnds`: an address that is
  being initialised has a thread that searches it and a handle one that opens it
  (`Served`). So a thread at a busy address has a searcher, a searcher that waits
  has an opener, and an opener waits for nothing.

### helloworld

`HelloworldKernelProofs`, for any number of blocks, tiles and buffers, any word,
and tensors of any rank and extents (`ShapesAssumption`: extents are natural
numbers).

- The count. `CountFact`: the fold in uint32 is at most the product of the
  extents and equal to it modulo `Word`. Both are folds over a set of dimensions;
  induction over the dimensions is by a smallest counterexample
  (`SetInduction`), since the library's induction theorems cannot be used (see
  below).
- The divisions. `SizesFact`: dividing by the blocks, the tiles and the buffers
  one after the other is dividing by their product (`DivideAgain`), so that the
  tiles of all blocks together take the count less one remainder.
- `Sound`, inductive: `Paced` orders the three counters of a block, each at most
  `BUFFER_NUM` ahead of the next; `InFlight` says which tile is in buffer `k`,
  the one last taken that is `k` modulo `BUFFER_NUM`; `Filled` that `z` holds
  exactly the sums of the tiles written. `SumsInPlace` alone says nothing of what
  is still in the buffers. `SumsAlwaysInPlace` follows at once;
  `OnlyRemainderEverLeftOut` counts the places by `PartsCount`, the size of a
  union of equally long, disjoint intervals.

### Only model-checked

`EveryBlockEnds` (both kernels), `EveryCallEnds`, `EveryLookupEnds` and the
fairness part of `ImplementsMaskUpdate`: liveness and `ENABLED` are outside the prover. So is
induction over data by the library's theorems, which take the induction
hypothesis as an operator; where it was needed (the scan, the count), the proof
takes the smallest counterexample of a set instead. Every other property of a
passing run is a theorem. The invariants `Looked` and `Sound` were also checked
by TLC on the instances of `op_api_lookup` and `helloworld`.

## 5. Not modelled

- A second host thread on the same stream. The macro's argument that a workspace
  may be free before it is used needs that the thread that gets the block next
  queues after it; with two threads the block could be given out between ACLNN
  546 and 562. Whether torch_npu lets two threads share a stream and its
  allocator is outside the repository.
- `ReleaseHugeMem` (ACLNN 553-556), which acts on memory of the library that
  nothing in the repository looks at, and the absence of the two functions for
  the huge-memory context (`if (initMemFunc)`), whose three addresses (520-522)
  are searched like the two of a call.
- What is inside a descriptor (formats, strides, storage sizes, ACLNN 200-250),
  tensors that wrap a number (`CopyScalarToDevice`, which `ConvertType` calls
  for a wrapped number), and the parameter hash (ACLNN 61-64, 96-102, 480-511),
  which nothing in the repository calls.
- `divisor_override` of `avg_pool3d`, an optional that reaches a C function as
  it is: the declaration that decides whether that is right is not here (see the
  hazard). Its number of dimensions and leading dimensions, the narrowing of an
  extent to int, and the product of the three strides (line 42), which differs
  from the check at line 101 only where it wraps to zero.
- Profiling, the overflow buffer and the unregistration at exit in the generated
  stub.
- `helloworld` with `x` and `y` of different shapes or types, and the rounding
  of a copy to 32 bytes when a tile is not a multiple of 16 elements.
- Int32/int64 conversions of token positions (positions are below 2^31 and ids
  below 2^63), dtype checks (tensors have one type here), platform queries,
  unaligned or non-contiguous tensors, and rows narrower than `SEQ_LEN`, for
  which the kernel reads beyond the tensor.
- Registration, build scripts, packaging and tests: no behaviour of their own at
  run time.

What could follow: the safety half of the other liveness properties, that in
every reachable state that is not final some party has what it waits for, and a
measure that each step of a launch decreases.
