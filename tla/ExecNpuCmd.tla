------------------------------ MODULE ExecNpuCmd ------------------------------
(***************************************************************************)
(* How an operator reaches the device: the host thread converts the        *)
(* arguments of an aclnn function to handles, asks for its workspace and   *)
(* hands a closure to the task queue (EXEC_NPU_CMD), or hands over the     *)
(* launch of a kernel (EXEC_KERNEL_CMD); the queue's thread calls the      *)
(* closure, which puts work on the device stream.  Memory belongs to a     *)
(* tensor only until the host drops it, however far the device has come.   *)
(***************************************************************************)
EXTENDS Integers, Sequences, FiniteSets

CONSTANTS
    Tensor, Content, Junk, Op, Result(_, _),   \* as in TensorProgram
    Block, NoBlock,   \* the blocks of device memory, and none
    Function,         \* the operations that are aclnn functions; the others are
                      \* kernel launches
    Arg,              \* the arguments of functions that may become handles
    Signature,        \* Signature[op]: those of function op
    Destroyable,      \* those whose destroy function is in a library
    QueueLimit,       \* the capacity of the task queue
    StreamLimit,      \* the capacity of the device stream
    MaxThrows         \* bound: no call is made after so many exceptions

ASSUME JunkAssumption == Junk \in Content
ASSUME NoBlockAssumption == NoBlock \notin Block
ASSUME ResultAssumption == \A op \in Op : \A c \in Content : Result(op, c) \in Content
ASSUME DestroyableAssumption == Destroyable \subseteq Arg
ASSUME FunctionAssumption == Function \subseteq Op
ASSUME SignatureAssumption == Signature \in [Function -> SUBSET Arg]
ASSUME LimitAssumption == QueueLimit \in Nat \ {0} /\ StreamLimit \in Nat \ {0}

VARIABLES
    where,     \* where[t]: the block of tensor t, NoBlock if it does not exist
    gm,        \* gm[b]: the contents of block b
    pc,        \* the step of the host thread
    call,      \* the command the host is preparing
    handles,   \* handles[a]: handles of argument a created and not destroyed
    hugeMem,   \* the huge-memory context of the host thread is initialised
    queue,     \* the task queue: closures not called yet
    stream,    \* the device stream: work not done yet
    due,       \* history: device memory before each command still to run, and
               \* after the last, run in the order of the calls; not kept
               \* once something is lost
    failed,    \* a closure failed: later calls throw
    dropped,   \* history: a launch was dropped, which nobody is told
    thrown,    \* exceptions so far
    seen       \* what the host read last

vars == <<where, gm, pc, call, handles, hugeMem, queue, stream, due, failed,
          dropped, thrown, seen>>
host == <<pc, call, handles, hugeMem, thrown, seen>>
work == <<queue, stream, due, failed, dropped>>

NoCall == <<>>

\* A command will not be run: what the caller expects is lost.
lost == failed \/ dropped

-----------------------------------------------------------------------------
(* The allocator and the commands.                                         *)

\* The stream-ordered allocator: a block is free as soon as no tensor has it,
\* even if commands on their way still use it.
Free == Block \ {where[t] : t \in Tensor}

Command(op, in, out, made) ==
    [op |-> op, in |-> where[in], out |-> where[out], ws |-> NoBlock, made |-> made]

\* The device runs a command: the workspace is scratched while it does.
Effect(cmd, mem) ==
    LET scratched == [b \in Block |-> IF b = cmd.ws THEN Junk ELSE mem[b]]
    IN  [scratched EXCEPT ![cmd.out] =
            IF cmd.out = cmd.ws THEN Junk ELSE Result(cmd.op, scratched[cmd.in])]

Pending == stream \o queue

Due(cmd) == IF lost THEN due ELSE Append(due, Effect(cmd, due[Len(due)]))

\* What is left of a command on the stream: no handles.
Work(cmd) == [cmd EXCEPT !.made = {}]

\* The host hands over a command.
Enqueue(cmd) ==
    /\ queue' = Append(queue, cmd) /\ due' = Due(cmd)
    /\ UNCHANGED <<stream, failed, dropped>>

\* ConvertTypes: of the arguments some become handles.  The others have no
\* create function, or are optional and empty, or scalars of another type.
Created(made) == [a \in Arg |-> handles[a] + (IF a \in made THEN 1 ELSE 0)]

\* ReleaseConvertTypes: a handle without a destroy function stays.
Released(made) ==
    [a \in Arg |-> handles[a] - (IF a \in made \cap Destroyable THEN 1 ELSE 0)]

-----------------------------------------------------------------------------
Init ==
    /\ where = [t \in Tensor |-> NoBlock]
    /\ gm = [b \in Block |-> Junk]
    /\ pc = "idle" /\ call = NoCall
    /\ handles = [a \in Arg |-> 0] /\ hugeMem = FALSE
    /\ queue = <<>> /\ stream = <<>> /\ due = <<gm>>
    /\ failed = FALSE /\ dropped = FALSE /\ thrown = 0
    /\ seen = Junk

\* at::empty and the end of a tensor.
NewTensor(t) ==
    /\ pc = "idle" /\ where[t] = NoBlock
    /\ \E b \in Free : where' = [where EXCEPT ![t] = b]
    /\ UNCHANGED <<gm, host, work>>

DropTensor(t) ==
    /\ pc = "idle" /\ where[t] # NoBlock
    /\ where' = [where EXCEPT ![t] = NoBlock]
    /\ UNCHANGED <<gm, host, work>>

\* An exception leaves the macro: nothing is undone.
Throw ==
    /\ thrown' = thrown + 1
    /\ pc' = "idle" /\ call' = NoCall

MayCall(in, out) ==
    /\ pc = "idle" /\ thrown < MaxThrows
    /\ where[in] # NoBlock /\ where[out] # NoBlock

\* EXEC_NPU_CMD up to ConvertTypes.
Convert(op, in, out) ==
    /\ op \in Function /\ MayCall(in, out)
    /\ hugeMem' = TRUE
    /\ \E made \in SUBSET Signature[op] :
          handles' = Created(made) /\ call' = Command(op, in, out, made)
    /\ pc' = "converted"
    /\ UNCHANGED <<where, gm, work, thrown, seen>>

\* An argument of a type that is not supported: the handles of the others stay,
\* those that were made before, in an order the language leaves open.
ConvertThrows(op, in, out) ==
    /\ op \in Function /\ MayCall(in, out)
    /\ hugeMem' = TRUE
    /\ \E made \in SUBSET Signature[op] : handles' = Created(made)
    /\ Throw
    /\ UNCHANGED <<where, gm, work, seen>>

GetWorkspaceSize ==
    /\ pc = "converted"
    /\ \/ pc' \in {"sized", "ready"} /\ UNCHANGED <<call, thrown>>
       \/ Throw
    /\ UNCHANGED <<where, gm, handles, hugeMem, work, seen>>

\* Mutant: the host waits for memory that nobody will give back.
AllocWorkspaceWaiting ==
    /\ pc = "sized"
    /\ \E b \in Free : call' = [call EXCEPT !.ws = b]
    /\ pc' = "ready"
    /\ UNCHANGED <<where, gm, handles, hugeMem, work, thrown, seen>>

\* workspace_tensor takes a block and dies at the end of the if: the command
\* keeps the address of a block that is free again.
AllocWorkspace ==
    /\ pc = "sized"
    /\ \/ /\ \E b \in Free : call' = [call EXCEPT !.ws = b]
          /\ pc' = "ready" /\ UNCHANGED thrown
       \/ Free = {} /\ Throw
    /\ UNCHANGED <<where, gm, handles, hugeMem, work, seen>>

\* UnInitHugeMemThreadLocal, at the end of EXEC_NPU_CMD only.
LeaveHugeMem == hugeMem' = (hugeMem /\ call.op \notin Function)

\* Mutant: the handles are destroyed by the host, once the closure is queued.
RunReleasing ==
    /\ pc = "ready" /\ ~failed /\ Len(queue) < QueueLimit
    /\ Enqueue(call) /\ handles' = Released(call.made) /\ LeaveHugeMem
    /\ pc' = "idle" /\ call' = NoCall
    /\ UNCHANGED <<where, gm, thrown, seen>>

\* Mutant: the queue grows when it is full.
RunUnbounded ==
    /\ pc = "ready" /\ ~failed
    /\ Enqueue(call) /\ LeaveHugeMem
    /\ pc' = "idle" /\ call' = NoCall
    /\ UNCHANGED <<where, gm, handles, thrown, seen>>

\* cmd.Run() waits for room in the queue, or throws after a failure; only the
\* former goes on to UnInitHugeMemThreadLocal.
Run ==
    /\ pc = "ready"
    /\ \/ /\ ~failed /\ Len(queue) < QueueLimit
          /\ Enqueue(call)
          /\ LeaveHugeMem
          /\ pc' = "idle" /\ call' = NoCall
          /\ UNCHANGED thrown
       \/ failed /\ Throw /\ UNCHANGED <<hugeMem, work>>
    /\ UNCHANGED <<where, gm, handles, seen>>

\* Mutant: the kernel is launched on the stream by the host itself.
KernelCmdAtOnce(op, in, out) ==
    /\ op \notin Function /\ MayCall(in, out) /\ ~failed /\ Len(stream) < StreamLimit
    /\ LET cmd == Command(op, in, out, {})
       IN  /\ stream' = Append(stream, cmd)
           /\ due' = Due(cmd)
    /\ UNCHANGED <<where, gm, host, queue, failed, dropped>>

\* EXEC_KERNEL_CMD, and torch's own operators, up to cmd.Run(): addresses and
\* no handles.
KernelCmd(op, in, out) ==
    /\ op \notin Function /\ MayCall(in, out)
    /\ call' = Command(op, in, out, {}) /\ pc' = "ready"
    /\ UNCHANGED <<where, gm, handles, hugeMem, work, thrown, seen>>

\* The queue's thread calls a closure: the work goes to the stream, and the
\* handles of an aclnn function are destroyed, now that it has been called.
\* ReleaseHugeMem, last of all, acts on memory nothing here looks at.
Consume ==
    /\ queue # <<>> /\ ~failed /\ Len(stream) < StreamLimit
    /\ stream' = Append(stream, Work(Head(queue))) /\ queue' = Tail(queue)
    /\ handles' = Released(Head(queue).made)
    /\ UNCHANGED <<where, gm, pc, call, hugeMem, thrown, seen, due, failed, dropped>>

\* The closure of a kernel drops what its stub returns: a launch that failed
\* counts as done.
ConsumeDropped ==
    /\ queue # <<>> /\ ~failed /\ Head(queue).op \notin Function
    /\ queue' = Tail(queue) /\ dropped' = TRUE /\ due' = <<>>
    /\ UNCHANGED <<where, gm, host, stream, failed>>

\* The aclnn function returns an error: the closure throws before it releases
\* anything, and the queue stops with what it holds.
ConsumeFails ==
    /\ queue # <<>> /\ ~failed /\ Head(queue).op \in Function
    /\ failed' = TRUE /\ queue' = <<>> /\ due' = <<>>
    /\ UNCHANGED <<where, gm, host, stream, dropped>>

\* The device finishes the first command of the stream.
Device ==
    /\ stream # <<>>
    /\ gm' = Effect(Head(stream), gm)
    /\ stream' = Tail(stream)
    /\ due' = IF lost THEN due ELSE Tail(due)
    /\ UNCHANGED <<where, host, queue, failed, dropped>>

\* The host wants the value of a tensor: it waits for queue and stream.
Sync(t) ==
    /\ MayCall(t, t)
    /\ pc' = "waiting" /\ call' = [in |-> where[t]]
    /\ UNCHANGED <<where, gm, handles, hugeMem, thrown, seen, work>>

FinishSync ==
    /\ pc = "waiting"
    /\ \/ /\ ~failed /\ Pending = <<>>
          /\ seen' = gm[call.in]
          /\ pc' = "idle" /\ call' = NoCall /\ UNCHANGED thrown
       \/ failed /\ Throw /\ UNCHANGED seen
    /\ UNCHANGED <<where, gm, handles, hugeMem, work>>

HostStep == GetWorkspaceSize \/ AllocWorkspace \/ Run \/ FinishSync

Next ==
    \/ \E t \in Tensor : NewTensor(t) \/ DropTensor(t) \/ Sync(t)
    \/ \E op \in Op, in, out \in Tensor :
          Convert(op, in, out) \/ ConvertThrows(op, in, out) \/ KernelCmd(op, in, out)
    \/ HostStep \/ Consume \/ ConsumeDropped \/ ConsumeFails \/ Device

\* A call that was begun goes on, the queue's thread runs until it fails, and
\* the device works through its stream.
Spec ==
    /\ Init /\ [][Next]_vars
    /\ WF_vars(HostStep) /\ WF_vars(Consume) /\ WF_vars(Device)

-----------------------------------------------------------------------------
(* Correctness.                                                            *)

BlockOrNone == Block \cup {NoBlock}

Commands ==
    {cmd \in [op : Op, in : Block, out : Block, ws : BlockOrNone, made : SUBSET Arg] :
        cmd.op \notin Function => cmd.made = {}}

CallOK ==
    CASE pc = "idle"    -> call = NoCall
      [] pc = "waiting" -> call \in [in : Block]
      [] OTHER          -> call \in Commands /\ (pc = "ready" \/ call.op \in Function)

\* Every variable has its type, no two tensors share a block, and neither the
\* queue nor the stream holds more than it can.
TypeOK ==
    /\ where \in [Tensor -> BlockOrNone]
    /\ \A s, t \in Tensor : where[s] = where[t] /\ where[s] # NoBlock => s = t
    /\ gm \in [Block -> Content]
    /\ pc \in {"idle", "converted", "sized", "ready", "waiting"} /\ CallOK
    /\ handles \in [Arg -> Nat] /\ hugeMem \in BOOLEAN
    /\ queue \in Seq(Commands) /\ Len(queue) <= QueueLimit
    /\ stream \in Seq(Commands) /\ Len(stream) <= StreamLimit
    /\ due \in Seq([Block -> Content])
    /\ failed \in BOOLEAN /\ dropped \in BOOLEAN /\ thrown \in Nat /\ seen \in Content

\* The handles of argument a that a closure still to be called, or the call that
\* the host is preparing, refers to.
Preparing == pc \in {"converted", "sized", "ready"}
InUse(a) ==
    Cardinality({i \in 1 .. Len(queue) : a \in queue[i].made})
        + (IF Preparing /\ a \in call.made THEN 1 ELSE 0)

\* A handle lives until the aclnn function it is meant for has been called, on
\* whatever thread; and unless something failed it does not live longer, if it
\* can be destroyed, nor does a call leave the huge-memory context behind.
HandlesMatchCalls ==
    /\ \A a \in Arg : handles[a] >= InUse(a)
    /\ thrown = 0 /\ ~failed =>
          /\ \A a \in Destroyable : handles[a] = InUse(a)
          /\ hugeMem <=> (Preparing /\ call.op \in Function)

\* The program as its caller sees it: a tensor has the value its block will
\* have when everything handed over so far has run.
DueValue == [t \in Tensor |->
    IF lost \/ where[t] = NoBlock THEN Junk ELSE due[Len(due)][where[t]]]

Existing == {t \in Tensor : where[t] # NoBlock}

Program == INSTANCE TensorProgram WITH exists <- Existing, value <- DueValue

\* Blocks given to new tensors while commands on old ones are under way, work
\* spaces that are free again before they are used, two threads and a device
\* that lag behind: none of it shows in the value of a tensor or in a read.
ImplementsTensorProgram == Program!Spec

\* Every call comes back, be it with an exception: no one waits for room in
\* the queue, for memory or for the device for ever.
EveryCallEnds == pc # "idle" ~> pc = "idle"
==============================================================================
