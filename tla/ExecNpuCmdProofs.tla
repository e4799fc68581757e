--------------------------- MODULE ExecNpuCmdProofs ---------------------------
(***************************************************************************)
(* Theorems about ExecNpuCmd: the types, the life of the handles, and that *)
(* queue, stream and allocator together implement TensorProgram.           *)
(***************************************************************************)
EXTENDS ExecNpuCmd, FiniteSetTheorems, FunctionTheorems, SequenceTheorems, TLAPS

Memory == [Block -> Content]

\* The history has an image of the memory before each command and one after
\* the last.
DueLength == Len(due) = IF lost THEN 0 ELSE Len(stream) + Len(queue) + 1

-----------------------------------------------------------------------------
(* Counting the handles.                                                   *)

Holds(cmd, a)   == a \in cmd.made
Holders(q, a) == {i \in 1 .. Len(q) : Holds(q[i], a)}
Held(q, a)    == Cardinality(Holders(q, a))

\* What the host's own call has of argument a.
Mine(a)   == IF Preparing /\ Holds(call, a) THEN 1 ELSE 0

LEMMA InUseIs ==
    ASSUME NEW a \in Arg
    PROVE  InUse(a) = Held(queue, a) + Mine(a)
    BY DEF InUse, Held, Holders, Holds, Mine, Preparing

LEMMA HoldersFinite ==
    ASSUME NEW q \in Seq(Commands), NEW a \in Arg
    PROVE  IsFiniteSet(Holders(q, a)) /\ Held(q, a) \in Nat
<1>1. IsFiniteSet(1 .. Len(q))
    BY FS_Interval
<1>2. Holders(q, a) \in SUBSET (1 .. Len(q))
    BY DEF Holders
<1>3. IsFiniteSet(Holders(q, a))
    BY <1>1, <1>2, FS_Subset
<1> QED
    BY <1>3, FS_CardinalityType DEF Held

LEMMA HeldNone ==
    ASSUME NEW a \in Arg
    PROVE  Held(<<>>, a) = 0
<1>1. Holders(<<>>, a) = {}
    BY DEF Holders
<1> QED
    BY <1>1, FS_EmptySet DEF Held

\* A closure that joins the queue adds its handles.
LEMMA HeldAppend ==
    ASSUME NEW q \in Seq(Commands), NEW cmd \in Commands, NEW a \in Arg
    PROVE  Held(Append(q, cmd), a) = Held(q, a) + (IF Holds(cmd, a) THEN 1 ELSE 0)
<1> DEFINE p == Append(q, cmd)
           n == Len(q) + 1
<1>1. /\ Len(q) \in Nat /\ Len(p) = n /\ p[n] = cmd
      /\ \A i \in 1 .. Len(q) : p[i] = q[i]
    OBVIOUS
<1>2. IsFiniteSet(Holders(q, a)) /\ Held(q, a) \in Nat
    BY HoldersFinite
<1>3. n \notin Holders(q, a)
    BY <1>1 DEF Holders
<1>4. CASE Holds(cmd, a)
    <2>1. Holders(p, a) = Holders(q, a) \cup {n}
        <3>1. \A i \in 1 .. n : i \in 1 .. Len(q) \/ i = n
            BY <1>1
        <3>2. 1 .. Len(q) \subseteq 1 .. n /\ n \in 1 .. n
            BY <1>1
        <3> HIDE DEF p, n
        <3> QED
            BY <1>1, <1>4, <3>1, <3>2 DEF Holders
    <2> HIDE DEF p, n
    <2>2. Cardinality(Holders(p, a)) = Cardinality(Holders(q, a)) + 1
        BY <1>2, <1>3, <2>1, FS_AddElement
    <2> QED
        BY <1>4, <2>2 DEF Held, p
<1>5. CASE ~Holds(cmd, a)
    <2>1. Holders(p, a) = Holders(q, a)
        <3>1. \A i \in 1 .. n : i \in 1 .. Len(q) \/ i = n
            BY <1>1
        <3>2. 1 .. Len(q) \subseteq 1 .. n
            BY <1>1
        <3> HIDE DEF p, n
        <3> QED
            BY <1>1, <1>5, <3>1, <3>2 DEF Holders
    <2> QED
        BY <1>2, <1>5, <2>1 DEF Held
<1> QED
    BY <1>4, <1>5

\* A closure that leaves the queue takes its handles along.
LEMMA HeldTail ==
    ASSUME NEW q \in Seq(Commands), q # <<>>, NEW a \in Arg
    PROVE  Held(q, a) = Held(Tail(q), a) + (IF Holds(Head(q), a) THEN 1 ELSE 0)
<1> DEFINE rest == Holders(q, a) \ {1}
           shift == [i \in rest |-> i - 1]
<1>1. /\ Len(q) \in Nat \ {0} /\ Tail(q) \in Seq(Commands) /\ Len(Tail(q)) = Len(q) - 1
      /\ \A i \in 1 .. Len(Tail(q)) : Tail(q)[i] = q[i + 1]
      /\ Head(q) = q[1]
    BY HeadTailProperties, EmptySeq
<1>2. IsFiniteSet(Holders(q, a)) /\ Held(q, a) \in Nat
    BY HoldersFinite
<1>3. /\ IsFiniteSet(rest)
      /\ Cardinality(rest) = IF 1 \in Holders(q, a) THEN Held(q, a) - 1 ELSE Held(q, a)
    BY <1>2, FS_RemoveElement DEF Held
<1>4. 1 \in Holders(q, a) <=> Holds(Head(q), a)
    BY <1>1 DEF Holders
<1>5. shift \in [rest -> Holders(Tail(q), a)]
    <2> SUFFICES ASSUME NEW i \in rest
                 PROVE  i - 1 \in Holders(Tail(q), a)
        OBVIOUS
    <2>1. i \in 1 .. Len(q) /\ i # 1 /\ Holds(q[i], a)
        BY DEF Holders
    <2>2. i - 1 \in 1 .. Len(Tail(q)) /\ (i - 1) + 1 = i
        BY <1>1, <2>1
    <2>3. Tail(q)[i - 1] = q[i]
        BY <1>1, <2>2
    <2> QED
        BY <2>1, <2>2, <2>3 DEF Holders
<1>6. \A i, j \in rest : shift[i] = shift[j] => i = j
    <2>1. \A i \in rest : i \in Int
        BY DEF Holders
    <2> QED
        BY <2>1
<1>7. \A j \in Holders(Tail(q), a) : \E i \in rest : shift[i] = j
    <2> SUFFICES ASSUME NEW j \in Holders(Tail(q), a)
                 PROVE  j + 1 \in rest /\ (j + 1) - 1 = j
        OBVIOUS
    <2>1. j \in 1 .. Len(Tail(q)) /\ Holds(Tail(q)[j], a)
        BY DEF Holders
    <2>2. j + 1 \in 1 .. Len(q) /\ j + 1 # 1 /\ (j + 1) - 1 = j
        BY <1>1, <2>1
    <2>3. Tail(q)[j] = q[j + 1]
        BY <1>1, <2>1
    <2> QED
        BY <2>1, <2>2, <2>3 DEF Holders
<1> HIDE DEF rest, shift
<1>8. shift \in Bijection(rest, Holders(Tail(q), a))
    BY <1>5, <1>6, <1>7, Fun_IsBij
<1>9. Cardinality(Holders(Tail(q), a)) = Cardinality(rest)
    BY <1>3, <1>8, FS_Bijection DEF ExistsBijection
<1> QED
    BY <1>2, <1>3, <1>4, <1>9 DEF Held


-----------------------------------------------------------------------------
(* Types, and the life of the handles.                                     *)

\* What the host has, and what is on its way.
HostTypes ==
    /\ where \in [Tensor -> BlockOrNone]
    /\ \A s, t \in Tensor : where[s] = where[t] /\ where[s] # NoBlock => s = t
    /\ pc \in {"idle", "converted", "sized", "ready", "waiting"} /\ CallOK
    /\ hugeMem \in BOOLEAN /\ thrown \in Nat /\ seen \in Content

WorkTypes ==
    /\ gm \in Memory
    /\ queue \in Seq(Commands) /\ Len(queue) <= QueueLimit
    /\ stream \in Seq(Commands) /\ Len(stream) <= StreamLimit
    /\ due \in Seq(Memory) /\ DueLength
    /\ failed \in BOOLEAN /\ dropped \in BOOLEAN

HandleTypes == handles \in [Arg -> Nat]

LEMMA TypeSplits == TypeOK /\ DueLength <=> HostTypes /\ WorkTypes /\ HandleTypes
    BY DEF TypeOK, HostTypes, WorkTypes, HandleTypes, Memory

LEMMA TypeSplitsPrimed ==
    (TypeOK /\ DueLength)' <=> HostTypes' /\ WorkTypes' /\ HandleTypes'
    BY DEF TypeOK, HostTypes, WorkTypes, HandleTypes, Memory

\* The inductive invariant: the handles cannot be typed without being counted.
Sound == HostTypes /\ WorkTypes /\ HandleTypes /\ HandlesMatchCalls

\* What a command makes of the memory is a memory.
LEMMA EffectType ==
    ASSUME NEW cmd \in Commands, NEW mem \in Memory
    PROVE  Effect(cmd, mem) \in Memory
<1> DEFINE scratched == [b \in Block |-> IF b = cmd.ws THEN Junk ELSE mem[b]]
<1>1. scratched \in Memory
    BY JunkAssumption DEF Memory
<1>2. cmd.op \in Op /\ cmd.in \in Block /\ cmd.out \in Block
    BY DEF Commands
<1>3. Result(cmd.op, scratched[cmd.in]) \in Content
    BY <1>1, <1>2, ResultAssumption DEF Memory
<1> HIDE DEF scratched
<1>4. [scratched EXCEPT ![cmd.out] =
           IF cmd.out = cmd.ws THEN Junk ELSE Result(cmd.op, scratched[cmd.in])] \in Memory
    BY <1>1, <1>2, <1>3, JunkAssumption DEF Memory
<1> QED
    BY <1>4 DEF Effect, scratched

\* A command that is handed over keeps the types.
LEMMA EnqueueType ==
    ASSUME WorkTypes, NEW cmd \in Commands, Enqueue(cmd), Len(queue) < QueueLimit
    PROVE  WorkTypes' \/ gm' # gm
<1> SUFFICES ASSUME gm' = gm PROVE WorkTypes'
    OBVIOUS
<1>1. /\ queue \in Seq(Commands) /\ stream \in Seq(Commands) /\ due \in Seq(Memory)
      /\ Len(stream) <= StreamLimit /\ gm \in Memory
      /\ failed \in BOOLEAN /\ dropped \in BOOLEAN
    BY DEF WorkTypes
<1>2. /\ queue' = Append(queue, cmd) /\ due' = Due(cmd)
      /\ stream' = stream /\ failed' = failed /\ dropped' = dropped
    BY DEF Enqueue
<1>3. queue' \in Seq(Commands) /\ Len(queue') = Len(queue) + 1 /\ Len(queue') <= QueueLimit
    BY <1>1, <1>2, LimitAssumption
<1>4. due' \in Seq(Memory) /\ DueLength'
    <2>1. lost' = lost
        BY <1>2 DEF lost
    <2>2. CASE lost
        BY <1>1, <1>2, <2>1, <2>2 DEF Due, DueLength, WorkTypes
    <2>3. CASE ~lost
        <3>1. Len(due) = Len(stream) + Len(queue) + 1
            BY <2>3 DEF WorkTypes, DueLength
        <3>2. Len(due) \in 1 .. Len(due)
            BY <1>1, <3>1
        <3>3. Effect(cmd, due[Len(due)]) \in Memory
            BY <1>1, <3>2, EffectType
        <3>4. due' = Append(due, Effect(cmd, due[Len(due)]))
            BY <1>2, <2>3 DEF Due
        <3>5. due' \in Seq(Memory) /\ Len(due') = Len(due) + 1
            BY <1>1, <3>3, <3>4
        <3>6. Len(due') = Len(stream') + Len(queue') + 1
            BY <1>1, <1>2, <1>3, <3>1, <3>5
        <3> QED
            BY <2>1, <2>3, <3>5, <3>6 DEF DueLength
    <2> QED
        BY <2>2, <2>3
<1> QED
    BY <1>1, <1>2, <1>3, <1>4 DEF WorkTypes

\* As long as nothing on its way changes, its types do not.
LEMMA WorkStays ==
    ASSUME WorkTypes, UNCHANGED <<gm, work>>
    PROVE  WorkTypes'
    BY DEF WorkTypes, work, DueLength, lost

\* HandlesMatchCalls, with the host's share and the queue's apart.
Matched ==
    /\ \A a \in Arg : handles[a] >= Held(queue, a) + Mine(a)
    /\ thrown = 0 /\ ~failed =>
          /\ \A a \in Destroyable : handles[a] = Held(queue, a) + Mine(a)
          /\ hugeMem <=> (Preparing /\ call.op \in Function)

LEMMA MatchedIs == HandlesMatchCalls <=> Matched
    BY InUseIs, DestroyableAssumption DEF HandlesMatchCalls, Matched, Preparing

LEMMA MatchedIsPrimed == HandlesMatchCalls' <=> Matched'
<1>1. ASSUME NEW a \in Arg
      PROVE  InUse(a)' = Held(queue', a) + Mine(a)'
    BY DEF InUse, Held, Holders, Holds, Mine, Preparing
<1>2. Matched' <=>
        /\ \A a \in Arg : handles'[a] >= Held(queue', a) + Mine(a)'
        /\ thrown' = 0 /\ ~failed' =>
              /\ \A a \in Destroyable : handles'[a] = Held(queue', a) + Mine(a)'
              /\ hugeMem' <=> (Preparing' /\ call'.op \in Function)
    BY DEF Matched, Held, Holders, Holds
<1> QED
    BY <1>1, <1>2, DestroyableAssumption DEF HandlesMatchCalls, Preparing

\* Nothing but a tensor is made or given up: a new one takes a free block.
LEMMA TensorStep ==
    ASSUME Sound, NEW t \in Tensor, NewTensor(t) \/ DropTensor(t)
    PROVE  Sound'
<1>1. HostTypes'
    <2>1. UNCHANGED host /\ pc = "idle"
        BY DEF NewTensor, DropTensor
    <2>2. CASE NewTensor(t)
        <3>1. PICK b \in Free : where' = [where EXCEPT ![t] = b]
            BY <2>2 DEF NewTensor
        <3>2. b \in Block /\ \A s \in Tensor : where[s] # b
            BY DEF Free
        <3> QED
            BY <2>1, <3>1, <3>2 DEF Sound, HostTypes, BlockOrNone, host, CallOK
    <2>3. CASE DropTensor(t)
        <3>1. where' = [where EXCEPT ![t] = NoBlock]
            BY <2>3 DEF DropTensor
        <3> QED
            BY <2>1, <3>1 DEF Sound, HostTypes, BlockOrNone, host, CallOK
    <2> QED
        BY <2>2, <2>3
<1>2. UNCHANGED <<gm, host, work>>
    BY DEF NewTensor, DropTensor
<1>3. WorkTypes' /\ HandleTypes'
    BY <1>2, WorkStays DEF Sound, HandleTypes, host
<1>4. Matched'
    BY <1>2, MatchedIs DEF Sound, Matched, Mine, Preparing, host, work
<1> QED
    BY <1>1, <1>3, <1>4, MatchedIsPrimed DEF Sound

\* An address of a tensor that exists is that of a block.
LEMMA CommandType ==
    ASSUME HostTypes, NEW op \in Op, NEW in \in Tensor, NEW out \in Tensor,
           MayCall(in, out), NEW made \in SUBSET Arg, op \notin Function => made = {}
    PROVE  Command(op, in, out, made) \in Commands
    BY DEF HostTypes, MayCall, Command, Commands, BlockOrNone

LEMMA ConvertStep ==
    ASSUME Sound, NEW op \in Op, NEW in \in Tensor, NEW out \in Tensor,
           Convert(op, in, out)
    PROVE  Sound'
<1>1. /\ op \in Function /\ MayCall(in, out) /\ pc = "idle" /\ pc' = "converted"
      /\ hugeMem' = TRUE /\ UNCHANGED <<where, gm, work, thrown, seen>>
    BY DEF Convert, MayCall
<1>2. PICK made \in SUBSET Signature[op] :
          handles' = Created(made) /\ call' = Command(op, in, out, made)
    BY DEF Convert
<1>3. made \in SUBSET Arg
    BY <1>1, SignatureAssumption
<1>4. call' \in Commands /\ call'.op = op /\ call'.made = made
    BY <1>1, <1>2, <1>3, CommandType DEF Sound, Command
<1>5. HostTypes'
    BY <1>1, <1>4 DEF Sound, HostTypes, CallOK
<1>6. WorkTypes'
    BY <1>1, WorkStays DEF Sound
<1>7. /\ handles \in [Arg -> Nat] /\ Matched /\ queue' = queue /\ failed' = failed
      /\ \A a \in Arg : Held(queue, a) \in Nat
    BY <1>1, MatchedIs, HoldersFinite DEF Sound, HandleTypes, work, WorkTypes
<1>8. \A a \in Arg : Mine(a) = 0 /\ Mine(a)' = IF a \in made THEN 1 ELSE 0
    BY <1>1, <1>4 DEF Mine, Preparing, Holds
<1>9. HandleTypes'
    BY <1>2, <1>7 DEF HandleTypes, Created
<1>10. \A a \in Arg : handles'[a] = handles[a] + (IF a \in made THEN 1 ELSE 0)
    BY <1>2 DEF Created
<1>11. Matched'
    <2>1. \A a \in Arg : handles[a] \in Nat /\ handles[a] >= Held(queue, a)
        BY <1>7, <1>8 DEF Matched
    <2>2. \A a \in Arg : handles'[a] >= Held(queue', a) + Mine(a)'
        BY <1>7, <1>8, <1>10, <2>1
    <2>3. ASSUME thrown' = 0, ~failed'
          PROVE  \A a \in Destroyable : handles'[a] = Held(queue', a) + Mine(a)'
        <3>1. \A a \in Destroyable : handles[a] = Held(queue, a) + 0
            BY <1>1, <1>7, <1>8, <2>3, DestroyableAssumption DEF Matched
        <3> QED
            BY <1>7, <1>8, <1>10, <2>1, <3>1, DestroyableAssumption
    <2> QED
        BY <1>1, <1>4, <2>2, <2>3 DEF Matched, Preparing
<1> QED
    BY <1>5, <1>6, <1>9, <1>11, MatchedIsPrimed DEF Sound

\* After an exception the handles of the queue are still there, at least.
LEMMA ThrowMatches ==
    ASSUME Sound, Throw, UNCHANGED <<where, gm, work, seen>>, HandleTypes', hugeMem' \in BOOLEAN,
           \A a \in Arg : handles'[a] >= handles[a]
    PROVE  Sound'
<1>1. thrown' = thrown + 1 /\ pc' = "idle" /\ call' = NoCall /\ thrown \in Nat
    BY DEF Throw, Sound, HostTypes
<1>2. HostTypes'
    BY <1>1 DEF Sound, HostTypes, CallOK
<1>3. WorkTypes'
    BY WorkStays DEF Sound
<1>4. /\ Matched /\ handles \in [Arg -> Nat] /\ handles' \in [Arg -> Nat]
      /\ queue' = queue /\ \A a \in Arg : Held(queue, a) \in Nat
    BY MatchedIs, HoldersFinite DEF Sound, HandleTypes, work, WorkTypes
<1>5. \A a \in Arg : Mine(a) \in {0, 1} /\ Mine(a)' = 0
    BY <1>1 DEF Mine, Preparing
<1>6. \A a \in Arg : handles'[a] >= Held(queue', a) + Mine(a)'
    <2>1. \A a \in Arg : handles[a] >= Held(queue, a) + Mine(a) /\ handles'[a] >= handles[a]
        BY <1>4 DEF Matched
    <2>2. \A a \in Arg : handles[a] \in Nat /\ handles'[a] \in Nat
        BY <1>4
    <2> QED
        BY <1>4, <1>5, <2>1, <2>2
<1>7. thrown' # 0
    BY <1>1
<1>8. Matched'
    BY <1>6, <1>7 DEF Matched
<1> QED
    BY <1>2, <1>3, <1>8, MatchedIsPrimed DEF Sound

LEMMA ConvertThrowsStep ==
    ASSUME Sound, NEW op \in Op, NEW in \in Tensor, NEW out \in Tensor,
           ConvertThrows(op, in, out)
    PROVE  Sound'
<1>1. PICK made \in SUBSET Signature[op] :
          handles' = [a \in Arg |-> handles[a] + (IF a \in made THEN 1 ELSE 0)]
    BY DEF ConvertThrows, Created
<1>2. handles \in [Arg -> Nat]
    BY DEF Sound, HandleTypes
<1>3. HandleTypes' /\ \A a \in Arg : handles'[a] >= handles[a]
    BY <1>1, <1>2 DEF HandleTypes
<1>4. Throw /\ hugeMem' \in BOOLEAN /\ UNCHANGED <<where, gm, work, seen>>
    BY DEF ConvertThrows
<1> QED
    BY <1>3, <1>4, ThrowMatches

\* A step of the host that changes neither the handles, nor what is on its way,
\* nor whether it prepares a call and which.
LEMMA SameMatches ==
    ASSUME Sound, HostTypes', UNCHANGED <<gm, handles, hugeMem, work, thrown>>,
           Preparing' <=> Preparing,
           Preparing => call'.made = call.made /\ call'.op = call.op
    PROVE  Sound'
<1>1. WorkTypes' /\ HandleTypes'
    BY WorkStays DEF Sound, HandleTypes
<1>2. \A a \in Arg : Mine(a)' = Mine(a)
    BY DEF Mine, Holds
<1>3. Matched'
    BY <1>2, MatchedIs, DestroyableAssumption DEF Sound, Matched, work, Preparing
<1> QED
    BY <1>1, <1>3, MatchedIsPrimed DEF Sound

LEMMA GetWorkspaceSizeStep ==
    ASSUME Sound, GetWorkspaceSize
    PROVE  Sound'
<1>1. pc = "converted" /\ UNCHANGED <<where, gm, handles, hugeMem, work, seen>>
    BY DEF GetWorkspaceSize
<1>2. CASE pc' \in {"sized", "ready"} /\ UNCHANGED <<call, thrown>>
    <2>1. HostTypes'
        BY <1>1, <1>2 DEF Sound, HostTypes, CallOK
    <2> QED
        BY <1>1, <1>2, <2>1, SameMatches DEF Preparing
<1>3. CASE Throw
    <2>1. hugeMem' \in BOOLEAN /\ HandleTypes' /\ \A a \in Arg : handles'[a] >= handles[a]
        BY <1>1 DEF Sound, HostTypes, HandleTypes
    <2> QED
        BY <1>1, <1>3, <2>1, ThrowMatches
<1> QED
    BY <1>2, <1>3 DEF GetWorkspaceSize

LEMMA AllocWorkspaceStep ==
    ASSUME Sound, AllocWorkspace
    PROVE  Sound'
<1>1. pc = "sized" /\ UNCHANGED <<where, gm, handles, hugeMem, work, seen>>
    BY DEF AllocWorkspace
<1>2. call \in Commands /\ call.op \in Function
    BY <1>1 DEF Sound, HostTypes, CallOK
<1>3. ASSUME NEW b \in Free, call' = [call EXCEPT !.ws = b], pc' = "ready", UNCHANGED thrown
      PROVE  Sound'
    <2>1. call' \in Commands /\ call'.made = call.made /\ call'.op = call.op
        BY <1>2, <1>3 DEF Commands, BlockOrNone, Free
    <2>2. HostTypes'
        BY <1>1, <1>2, <1>3, <2>1 DEF Sound, HostTypes, CallOK
    <2> QED
        BY <1>1, <1>3, <2>1, <2>2, SameMatches DEF Preparing
<1>4. CASE Free = {} /\ Throw
    <2>1. hugeMem' \in BOOLEAN /\ HandleTypes' /\ \A a \in Arg : handles'[a] >= handles[a]
        BY <1>1 DEF Sound, HostTypes, HandleTypes
    <2> QED
        BY <1>1, <1>4, <2>1, ThrowMatches
<1> QED
    BY <1>3, <1>4 DEF AllocWorkspace


LEMMA RunStep ==
    ASSUME Sound, Run
    PROVE  Sound'
<1>1. pc = "ready" /\ UNCHANGED <<where, gm, handles, seen>>
    BY DEF Run
<1>2. call \in Commands
    BY <1>1 DEF Sound, HostTypes, CallOK
<1>3. ASSUME ~failed, Len(queue) < QueueLimit, Enqueue(call), LeaveHugeMem,
             pc' = "idle", call' = NoCall, UNCHANGED thrown
      PROVE  Sound'
    <2>1. HostTypes' /\ HandleTypes'
        BY <1>1, <1>3 DEF Sound, HostTypes, HandleTypes, CallOK, LeaveHugeMem
    <2>2. WorkTypes'
        BY <1>1, <1>2, <1>3, EnqueueType DEF Sound
    <2>3. \A a \in Arg : Held(queue', a) = Held(queue, a) + (IF Holds(call, a) THEN 1 ELSE 0)
        BY <1>2, <1>3, HeldAppend DEF Sound, WorkTypes, Enqueue
    <2>4. \A a \in Arg : Mine(a) = (IF Holds(call, a) THEN 1 ELSE 0) /\ Mine(a)' = 0
        BY <1>1, <1>3 DEF Mine, Preparing
    <2>5. \A a \in Arg : Held(queue, a) \in Nat
        BY HoldersFinite DEF Sound, WorkTypes
    <2>6. \A a \in Arg : Held(queue', a) + Mine(a)' = Held(queue, a) + Mine(a)
        BY <2>3, <2>4, <2>5
    <2>7. Matched'
        <3>1. \A a \in Arg : handles'[a] >= Held(queue', a) + Mine(a)'
            BY <1>1, <2>6, MatchedIs DEF Sound, Matched
        <3>2. ASSUME thrown' = 0, ~failed'
              PROVE  /\ \A a \in Destroyable : handles'[a] = Held(queue', a) + Mine(a)'
                     /\ ~hugeMem' /\ ~Preparing'
            <4>1. /\ \A a \in Destroyable : handles[a] = Held(queue, a) + Mine(a)
                  /\ hugeMem <=> call.op \in Function
                BY <1>1, <1>3, <3>2, MatchedIs DEF Sound, Matched, Preparing
            <4> QED
                BY <1>1, <1>3, <2>6, <4>1, DestroyableAssumption DEF LeaveHugeMem, Preparing
        <3> QED
            BY <3>1, <3>2 DEF Matched
    <2> QED
        BY <2>1, <2>2, <2>7, MatchedIsPrimed DEF Sound
<1>4. CASE failed /\ Throw /\ UNCHANGED <<hugeMem, work>>
    <2>1. hugeMem' \in BOOLEAN /\ HandleTypes' /\ \A a \in Arg : handles'[a] >= handles[a]
        BY <1>1, <1>4 DEF Sound, HostTypes, HandleTypes
    <2> QED
        BY <1>1, <1>4, <2>1, ThrowMatches
<1> QED
    BY <1>3, <1>4 DEF Run

LEMMA KernelCmdStep ==
    ASSUME Sound, NEW op \in Op, NEW in \in Tensor, NEW out \in Tensor,
           KernelCmd(op, in, out)
    PROVE  Sound'
<1>1. /\ op \notin Function /\ MayCall(in, out) /\ pc = "idle" /\ pc' = "ready"
      /\ call' = Command(op, in, out, {})
      /\ UNCHANGED <<where, gm, handles, hugeMem, work, thrown, seen>>
    BY DEF KernelCmd, MayCall
<1>2. call' \in Commands /\ call'.op = op /\ call'.made = {}
    BY <1>1, CommandType DEF Sound, Command
<1>3. HostTypes' /\ HandleTypes' /\ WorkTypes'
    BY <1>1, <1>2, WorkStays DEF Sound, HostTypes, HandleTypes, CallOK
<1>4. \A a \in Arg : Mine(a) = 0 /\ Mine(a)' = 0
    BY <1>1, <1>2 DEF Mine, Preparing, Holds
<1>5. Matched'
    BY <1>1, <1>2, <1>4, MatchedIs, DestroyableAssumption
       DEF Sound, Matched, Preparing, work
<1> QED
    BY <1>3, <1>5, MatchedIsPrimed DEF Sound

\* What the head of the queue and the rest of it are.
LEMMA HeadAndTail ==
    ASSUME Sound, queue # <<>>
    PROVE  /\ Head(queue) \in Commands /\ Tail(queue) \in Seq(Commands)
           /\ Len(Tail(queue)) = Len(queue) - 1 /\ Len(queue) \in Nat \ {0}
           /\ \A a \in Arg :
                 /\ Held(queue, a) \in Nat /\ Held(Tail(queue), a) \in Nat
                 /\ Held(queue, a) = Held(Tail(queue), a)
                                         + (IF Holds(Head(queue), a) THEN 1 ELSE 0)
<1>1. queue \in Seq(Commands)
    BY DEF Sound, WorkTypes
<1>2. /\ Head(queue) \in Commands /\ Tail(queue) \in Seq(Commands)
      /\ Len(Tail(queue)) = Len(queue) - 1 /\ Len(queue) \in Nat \ {0}
    BY <1>1, HeadTailProperties, EmptySeq
<1> QED
    BY <1>1, <1>2, HoldersFinite, HeldTail

\* A command without its handles is a command, and has the same effect.
LEMMA WorkType ==
    ASSUME NEW cmd \in Commands
    PROVE  /\ Work(cmd) \in Commands
           /\ \A mem : Effect(Work(cmd), mem) = Effect(cmd, mem)
<1>1. /\ Work(cmd) \in Commands /\ Work(cmd).op = cmd.op /\ Work(cmd).ws = cmd.ws
      /\ Work(cmd).in = cmd.in /\ Work(cmd).out = cmd.out
    BY DEF Commands, Work
<1> QED
    BY <1>1 DEF Effect

\* The handles are counted down only when the queue gives the closure up that
\* they were made for.
LEMMA ConsumeStep ==
    ASSUME Sound, Consume
    PROVE  Sound'
<1> DEFINE cmd == Head(queue)
<1>1. /\ queue # <<>> /\ Len(stream) < StreamLimit
      /\ stream' = Append(stream, Work(cmd)) /\ queue' = Tail(queue)
      /\ handles' = Released(cmd.made)
      /\ UNCHANGED <<where, gm, pc, call, hugeMem, thrown, seen, due, failed, dropped>>
    BY DEF Consume
<1>2. /\ cmd \in Commands /\ Tail(queue) \in Seq(Commands)
      /\ Len(Tail(queue)) = Len(queue) - 1 /\ Len(queue) \in Nat \ {0}
      /\ \A a \in Arg : /\ Held(queue, a) \in Nat /\ Held(queue', a) \in Nat
                         /\ Held(queue, a) = Held(queue', a) + (IF Holds(cmd, a) THEN 1 ELSE 0)
      /\ Work(cmd) \in Commands
    BY <1>1, HeadAndTail, WorkType
<1> HIDE DEF cmd
<1>3. HostTypes'
    BY <1>1 DEF Sound, HostTypes, CallOK
<1>4. WorkTypes'
    <2>1. /\ stream \in Seq(Commands) /\ Len(stream) \in Nat /\ Len(queue) <= QueueLimit
          /\ QueueLimit \in Nat /\ StreamLimit \in Nat
        BY LimitAssumption DEF Sound, WorkTypes
    <2>2. stream' \in Seq(Commands) /\ Len(stream') = Len(stream) + 1
        BY <1>1, <1>2, <2>1
    <2>3. Len(stream') <= StreamLimit /\ Len(queue') <= QueueLimit
        BY <1>1, <1>2, <2>1, <2>2
    <2>4. lost' = lost /\ Len(stream') + Len(queue') = Len(stream) + Len(queue)
        BY <1>1, <1>2, <2>1, <2>2 DEF lost
    <2>5. DueLength'
        BY <1>1, <2>4 DEF Sound, WorkTypes, DueLength
    <2> QED
        BY <1>1, <1>2, <2>2, <2>3, <2>5 DEF Sound, WorkTypes
<1>5. handles \in [Arg -> Nat] /\ Matched /\ \A a \in Arg : Mine(a) \in {0, 1} /\ Mine(a)' = Mine(a)
    BY <1>1, MatchedIs DEF Sound, HandleTypes, Mine, Preparing
<1>6. \A a \in Arg :
          handles'[a] = handles[a] - (IF Holds(cmd, a) /\ a \in Destroyable THEN 1 ELSE 0)
    BY <1>1 DEF Released, Holds
<1>7. \A a \in Arg : handles[a] \in Nat /\ handles[a] >= Held(queue, a) + Mine(a)
    BY <1>5 DEF Matched
<1>8. HandleTypes'
    <2>1. \A a \in Arg :
              handles[a] - (IF Holds(cmd, a) /\ a \in Destroyable THEN 1 ELSE 0) \in Nat
        BY <1>2, <1>5, <1>7
    <2>2. handles' = [a \in Arg |-> handles'[a]]
        BY <1>1 DEF Released
    <2> QED
        BY <1>6, <2>1, <2>2 DEF HandleTypes
<1>9. Matched'
    <2>1. \A a \in Arg : handles'[a] >= Held(queue', a) + Mine(a)'
        BY <1>2, <1>5, <1>6, <1>7
    <2>2. ASSUME thrown' = 0, ~failed'
          PROVE  /\ \A a \in Destroyable : handles'[a] = Held(queue', a) + Mine(a)'
                 /\ hugeMem' <=> (Preparing' /\ call'.op \in Function)
        <3>1. /\ \A a \in Destroyable : handles[a] = Held(queue, a) + Mine(a)
              /\ hugeMem <=> (Preparing /\ call.op \in Function)
            BY <1>1, <1>5, <2>2 DEF Matched
        <3>2. \A a \in Destroyable : handles'[a] = Held(queue', a) + Mine(a)'
            BY <1>2, <1>5, <1>6, <1>7, <3>1, DestroyableAssumption
        <3> QED
            BY <1>1, <3>1, <3>2 DEF Preparing
    <2> QED
        BY <2>1, <2>2 DEF Matched
<1> QED
    BY <1>3, <1>4, <1>8, <1>9, MatchedIsPrimed DEF Sound

LEMMA ConsumeDroppedStep ==
    ASSUME Sound, ConsumeDropped
    PROVE  Sound'
<1>1. /\ queue # <<>> /\ Head(queue).op \notin Function /\ queue' = Tail(queue)
      /\ dropped' = TRUE /\ due' = <<>> /\ UNCHANGED <<where, gm, host, stream, failed>>
    BY DEF ConsumeDropped
<1>2. HostTypes' /\ HandleTypes'
    BY <1>1 DEF Sound, HostTypes, HandleTypes, CallOK, host
<1>3. WorkTypes'
    <2>1. /\ Tail(queue) \in Seq(Commands) /\ Len(Tail(queue)) = Len(queue) - 1
          /\ Len(queue) \in Nat /\ Len(queue) <= QueueLimit /\ QueueLimit \in Nat
        BY <1>1, HeadAndTail, LimitAssumption DEF Sound, WorkTypes
    <2>2. lost' /\ due' \in Seq(Memory) /\ Len(due') = 0
        BY <1>1, EmptySeq DEF lost
    <2>3. Len(queue') <= QueueLimit
        BY <1>1, <2>1
    <2> QED
        BY <1>1, <2>1, <2>2, <2>3 DEF Sound, WorkTypes, DueLength
<1>4. \A a \in Arg : Held(queue', a) = Held(queue, a) /\ Mine(a)' = Mine(a)
    <2>1. Head(queue).made = {}
        BY <1>1, HeadAndTail DEF Commands
    <2> QED
        BY <1>1, <2>1, HeadAndTail DEF Holds, Mine, Preparing, host
<1>5. Matched'
    BY <1>1, <1>4, MatchedIs, DestroyableAssumption DEF Sound, Matched, host, Preparing
<1> QED
    BY <1>2, <1>3, <1>5, MatchedIsPrimed DEF Sound

LEMMA ConsumeFailsStep ==
    ASSUME Sound, ConsumeFails
    PROVE  Sound'
<1>1. failed' /\ queue' = <<>> /\ due' = <<>> /\ UNCHANGED <<where, gm, host, stream, dropped>>
    BY DEF ConsumeFails
<1>2. HostTypes' /\ HandleTypes'
    BY <1>1 DEF Sound, HostTypes, HandleTypes, CallOK, host
<1>3. WorkTypes'
    <2>1. lost' /\ due' \in Seq(Memory) /\ Len(due') = 0
        BY <1>1, EmptySeq DEF lost
    <2>2. queue' \in Seq(Commands) /\ Len(queue') <= QueueLimit
        BY <1>1, EmptySeq, LimitAssumption
    <2> QED
        BY <1>1, <2>1, <2>2 DEF Sound, WorkTypes, DueLength, ConsumeFails
<1>4. \A a \in Arg : /\ Held(queue', a) = 0 /\ Held(queue, a) \in Nat
                      /\ Mine(a) \in {0, 1} /\ Mine(a)' = Mine(a)
                      /\ handles[a] \in Nat /\ handles'[a] = handles[a]
                      /\ handles[a] >= Held(queue, a) + Mine(a)
    BY <1>1, HeldNone, HoldersFinite, MatchedIs
       DEF Sound, HandleTypes, WorkTypes, Matched, Mine, Preparing, host
<1>5. \A a \in Arg : handles'[a] >= Held(queue', a) + Mine(a)'
    BY <1>4
<1>6. Matched'
    BY <1>1, <1>5 DEF Matched
<1> QED
    BY <1>2, <1>3, <1>6, MatchedIsPrimed DEF Sound

LEMMA DeviceStep ==
    ASSUME Sound, Device
    PROVE  Sound'
<1>1. /\ stream # <<>> /\ gm' = Effect(Head(stream), gm) /\ stream' = Tail(stream)
      /\ due' = (IF lost THEN due ELSE Tail(due))
      /\ UNCHANGED <<where, host, queue, failed, dropped>>
    BY DEF Device
<1>2. HostTypes' /\ HandleTypes'
    BY <1>1 DEF Sound, HostTypes, HandleTypes, CallOK, host
<1>3. WorkTypes'
    <2>1. /\ stream \in Seq(Commands) /\ due \in Seq(Memory) /\ gm \in Memory
          /\ Len(queue) \in Nat /\ Len(stream) <= StreamLimit
        BY DEF Sound, WorkTypes
    <2>2. /\ Head(stream) \in Commands /\ stream' \in Seq(Commands)
          /\ Len(stream') = Len(stream) - 1 /\ Len(stream) \in Nat \ {0}
        BY <1>1, <2>1, HeadTailProperties, EmptySeq
    <2>3. gm' \in Memory
        BY <1>1, <2>1, <2>2, EffectType
    <2>4. Len(stream') <= StreamLimit
        BY <2>1, <2>2, LimitAssumption
    <2>5. due' \in Seq(Memory) /\ DueLength'
        <3>1. lost' = lost
            BY <1>1 DEF lost
        <3>2. CASE lost
            BY <1>1, <2>1, <3>1, <3>2 DEF Sound, WorkTypes, DueLength
        <3>3. CASE ~lost
            <4>1. Len(due) = Len(stream) + Len(queue) + 1
                BY <3>3 DEF Sound, WorkTypes, DueLength
            <4>2. due # <<>>
                BY <2>1, <2>2, <4>1
            <4>3. due' \in Seq(Memory) /\ Len(due') = Len(due) - 1
                BY <1>1, <2>1, <3>3, <4>2, HeadTailProperties
            <4>4. Len(due') = Len(stream') + Len(queue') + 1
                BY <1>1, <2>1, <2>2, <4>1, <4>3
            <4> QED
                BY <3>1, <3>3, <4>3, <4>4 DEF DueLength
        <3> QED
            BY <3>2, <3>3
    <2> QED
        BY <1>1, <2>2, <2>3, <2>4, <2>5 DEF Sound, WorkTypes
<1>4. Matched'
    BY <1>1, MatchedIs DEF Sound, Matched, Mine, Preparing, host
<1> QED
    BY <1>2, <1>3, <1>4, MatchedIsPrimed DEF Sound

LEMMA SyncStep ==
    ASSUME Sound, NEW t \in Tensor, Sync(t)
    PROVE  Sound'
<1>1. /\ pc = "idle" /\ pc' = "waiting" /\ call' = [in |-> where[t]] /\ where[t] # NoBlock
      /\ UNCHANGED <<where, gm, handles, hugeMem, thrown, seen, work>>
    BY DEF Sync, MayCall
<1>2. HostTypes'
    BY <1>1 DEF Sound, HostTypes, CallOK, BlockOrNone
<1> QED
    BY <1>1, <1>2, SameMatches DEF Preparing

LEMMA FinishSyncStep ==
    ASSUME Sound, FinishSync
    PROVE  Sound'
<1>1. pc = "waiting" /\ UNCHANGED <<where, gm, handles, hugeMem, work>>
    BY DEF FinishSync
<1>2. CASE failed /\ Throw /\ UNCHANGED seen
    <2>1. hugeMem' \in BOOLEAN /\ HandleTypes' /\ \A a \in Arg : handles'[a] >= handles[a]
        BY <1>1 DEF Sound, HostTypes, HandleTypes
    <2> QED
        BY <1>1, <1>2, <2>1, ThrowMatches
<1>3. ASSUME seen' = gm[call.in], pc' = "idle", call' = NoCall, UNCHANGED thrown
      PROVE  Sound'
    <2>1. call \in [in : Block]
        BY <1>1 DEF Sound, HostTypes, CallOK
    <2>2. seen' \in Content
        BY <1>3, <2>1 DEF Sound, WorkTypes, Memory
    <2>3. HostTypes'
        BY <1>1, <1>3, <2>2 DEF Sound, HostTypes, CallOK
    <2> QED
        BY <1>1, <1>3, <2>3, SameMatches DEF Preparing
<1> QED
    BY <1>2, <1>3 DEF FinishSync

LEMMA InitSound == Init => Sound
<1> SUFFICES ASSUME Init PROVE Sound
    OBVIOUS
<1>1. HostTypes /\ HandleTypes
    BY JunkAssumption DEF Init, HostTypes, HandleTypes, BlockOrNone, CallOK, NoCall
<1>2. WorkTypes
    <2>1. gm \in Memory
        BY JunkAssumption DEF Init, Memory
    <2>2. due \in Seq(Memory) /\ Len(due) = 1
        BY <2>1 DEF Init
    <2>3. /\ queue = <<>> /\ stream = <<>> /\ ~failed /\ ~dropped
          /\ <<>> \in Seq(Commands) /\ Len(queue) = 0 /\ Len(stream) = 0
        BY EmptySeq DEF Init
    <2>4. DueLength
        BY <2>2, <2>3 DEF DueLength, lost
    <2>5. Len(queue) <= QueueLimit /\ Len(stream) <= StreamLimit
        BY <2>3, LimitAssumption
    <2>6. queue \in Seq(Commands) /\ stream \in Seq(Commands)
        BY <2>3
    <2>7. failed \in BOOLEAN /\ dropped \in BOOLEAN
        BY DEF Init
    <2> QED
        BY <2>1, <2>2, <2>4, <2>5, <2>6, <2>7 DEF WorkTypes
<1>3. Matched
    <2>1. \A a \in Arg : Held(queue, a) = 0 /\ Mine(a) = 0 /\ handles[a] = 0
        BY HeldNone DEF Init, Mine, Preparing
    <2> QED
        BY <2>1, DestroyableAssumption DEF Init, Matched, Preparing
<1> QED
    BY <1>1, <1>2, <1>3, MatchedIs DEF Sound

LEMMA NextSound == Sound /\ [Next]_vars => Sound'
<1> SUFFICES ASSUME Sound, [Next]_vars PROVE Sound'
    OBVIOUS
<1>1. CASE \E t \in Tensor : NewTensor(t) \/ DropTensor(t) \/ Sync(t)
    BY <1>1, TensorStep, SyncStep
<1>2. CASE \E op \in Op, in, out \in Tensor :
              Convert(op, in, out) \/ ConvertThrows(op, in, out) \/ KernelCmd(op, in, out)
    BY <1>2, ConvertStep, ConvertThrowsStep, KernelCmdStep
<1>3. CASE HostStep
    BY <1>3, GetWorkspaceSizeStep, AllocWorkspaceStep, RunStep, FinishSyncStep DEF HostStep
<1>4. CASE Consume \/ ConsumeDropped \/ ConsumeFails \/ Device
    BY <1>4, ConsumeStep, ConsumeDroppedStep, ConsumeFailsStep, DeviceStep
<1>5. CASE UNCHANGED vars
    <2>1. HostTypes'
        BY <1>5 DEF vars, Sound, HostTypes, CallOK
    <2> QED
        BY <1>5, <2>1, SameMatches DEF vars, work, Preparing
<1> QED
    BY <1>1, <1>2, <1>3, <1>4, <1>5 DEF Next

LEMMA AlwaysSound == Spec => []Sound
    BY InitSound, NextSound, PTL DEF Spec

\* Types and limits of queue and stream, for any number of tensors, blocks,
\* operations and kinds of handles.
THEOREM CallTypeCorrect == Spec => []TypeOK
<1>1. Sound => TypeOK
    BY TypeSplits DEF Sound
<1> QED
    BY <1>1, AlwaysSound, PTL

\* Every handle lives until the function it was made for has been called on
\* the queue's thread, and no longer if nothing fails.
THEOREM HandlesAlwaysMatchCalls == Spec => []HandlesMatchCalls
<1>1. Sound => HandlesMatchCalls
    BY DEF Sound
<1> QED
    BY <1>1, AlwaysSound, PTL


-----------------------------------------------------------------------------
(* The refinement.                                                         *)

\* The images in the history are those of the commands on their way, the first
\* is the memory as it is.
Images ==
    ~lost => /\ due[1] = gm
             /\ \A i \in 1 .. Len(Pending) : due[i + 1] = Effect(Pending[i], due[i])

\* A call under preparation has the addresses of tensors that still exist, and
\* a workspace that is no tensor's; a read has that of a tensor.
CallFrom ==
    /\ Preparing => /\ \E s, u \in Tensor : call.in = where[s] /\ call.out = where[u]
                    /\ \A t \in Tensor : where[t] = call.ws => where[t] = NoBlock
    /\ pc = "waiting" => \E t \in Tensor : call.in = where[t]

Traced == Sound /\ Images /\ CallFrom

LEMMA PendingIs ==
    ASSUME Sound
    PROVE  /\ stream \in Seq(Commands) /\ queue \in Seq(Commands)
           /\ Pending \in Seq(Commands) /\ Len(Pending) = Len(stream) + Len(queue)
           /\ \A i \in 1 .. Len(Pending) :
                 Pending[i] = IF i <= Len(stream) THEN stream[i] ELSE queue[i - Len(stream)]
<1>1. stream \in Seq(Commands) /\ queue \in Seq(Commands)
    BY DEF Sound, WorkTypes
<1> QED
    BY <1>1, ConcatProperties DEF Pending

\* The history and what is on its way have the same length but for one.
LEMMA DueIs ==
    ASSUME Sound, ~lost
    PROVE  /\ due \in Seq(Memory) /\ Len(due) = Len(Pending) + 1
           /\ Len(Pending) \in Nat /\ Len(due) \in 1 .. Len(due)
           /\ due[Len(due)] \in Memory
<1>1. due \in Seq(Memory) /\ Len(due) = Len(Pending) + 1 /\ Len(Pending) \in Nat
    BY PendingIs DEF Sound, WorkTypes, DueLength
<1>2. Len(due) \in 1 .. Len(due)
    BY <1>1
<1> QED
    BY <1>1, <1>2

LEMMA PendingAppend ==
    ASSUME Sound, NEW cmd \in Commands, Enqueue(cmd)
    PROVE  Pending' = Append(Pending, cmd)
<1>1. stream \in Seq(Commands) /\ queue \in Seq(Commands)
    BY PendingIs
<1>2. stream' = stream /\ queue' = Append(queue, cmd)
    BY DEF Enqueue
<1>3. stream \o Append(queue, cmd) = Append(stream \o queue, cmd)
    BY <1>1
<1> QED
    BY <1>2, <1>3 DEF Pending

\* The command that moves to the stream loses its handles there, nothing else.
LEMMA PendingMoves ==
    ASSUME Sound, Consume
    PROVE  /\ Len(Pending') = Len(Pending)
           /\ \A i \in 1 .. Len(Pending') :
                 \A mem : Effect(Pending'[i], mem) = Effect(Pending[i], mem)
<1>1. /\ stream \in Seq(Commands) /\ queue \in Seq(Commands) /\ queue # <<>>
      /\ Head(queue) \in Commands /\ Work(Head(queue)) \in Commands
    BY PendingIs, HeadAndTail, WorkType DEF Consume
<1>2. stream' = Append(stream, Work(Head(queue))) /\ queue' = Tail(queue)
    BY DEF Consume
<1>3. /\ Len(queue) \in Nat \ {0} /\ Tail(queue) \in Seq(Commands)
      /\ Len(Tail(queue)) = Len(queue) - 1 /\ Head(queue) = queue[1]
      /\ \A i \in 1 .. Len(Tail(queue)) : Tail(queue)[i] = queue[i + 1]
    BY <1>1, HeadTailProperties, EmptySeq
<1>4. /\ Len(stream) \in Nat /\ stream' \in Seq(Commands) /\ Len(stream') = Len(stream) + 1
      /\ stream'[Len(stream) + 1] = Work(Head(queue))
      /\ \A i \in 1 .. Len(stream) : stream'[i] = stream[i]
    BY <1>1, <1>2
<1>5. /\ Len(Pending) = Len(stream) + Len(queue)
      /\ \A i \in 1 .. Len(Pending) :
            Pending[i] = IF i <= Len(stream) THEN stream[i] ELSE queue[i - Len(stream)]
    BY PendingIs
<1>6. /\ Len(Pending') = Len(stream') + Len(queue')
      /\ \A i \in 1 .. Len(Pending') :
            Pending'[i] = IF i <= Len(stream') THEN stream'[i] ELSE queue'[i - Len(stream')]
    BY <1>2, <1>3, <1>4, ConcatProperties DEF Pending
<1>7. Len(Pending') = Len(Pending)
    BY <1>2, <1>3, <1>4, <1>5, <1>6
<1>8. ASSUME NEW i \in 1 .. Len(Pending')
      PROVE  \A mem : Effect(Pending'[i], mem) = Effect(Pending[i], mem)
    <2>1. i \in Nat /\ i >= 1 /\ i <= Len(stream) + Len(queue)
        BY <1>3, <1>4, <1>5, <1>7
    <2>2. CASE i <= Len(stream)
        BY <1>4, <1>5, <1>6, <1>7, <2>1, <2>2
    <2>3. CASE i = Len(stream) + 1
        <3>1. Pending'[i] = Work(Head(queue)) /\ Pending[i] = queue[1]
            BY <1>4, <1>5, <1>6, <1>7, <2>1, <2>3
        <3> QED
            BY <1>1, <1>3, <3>1, WorkType
    <2>4. CASE i > Len(stream) + 1
        <3> DEFINE j == i - Len(stream')
        <3>1. j \in 1 .. Len(Tail(queue)) /\ i - Len(stream) = j + 1
            BY <1>3, <1>4, <2>1, <2>4
        <3>2. ~(i <= Len(stream)) /\ ~(i <= Len(stream'))
            BY <1>4, <2>1, <2>4
        <3>3. Pending'[i] = queue'[j]
            BY <1>6, <3>2
        <3>4. Pending[i] = queue[i - Len(stream)]
            BY <1>5, <1>7, <3>2
        <3>5. Tail(queue)[j] = queue[j + 1]
            BY <1>3, <3>1
        <3>6. Pending'[i] = Pending[i]
            BY <1>2, <3>1, <3>3, <3>4, <3>5
        <3> QED
            BY <3>6
    <2> QED
        BY <1>4, <2>1, <2>2, <2>3, <2>4
<1> QED
    BY <1>7, <1>8

LEMMA PendingTail ==
    ASSUME Sound, Device
    PROVE  Pending # <<>> /\ Pending' = Tail(Pending) /\ Head(stream) = Pending[1]
<1>1. stream \in Seq(Commands) /\ queue \in Seq(Commands) /\ stream # <<>>
    BY PendingIs DEF Device
<1>2. stream' = Tail(stream) /\ queue' = queue
    BY DEF Device
<1>3. /\ Tail(stream) \o queue = Tail(stream \o queue)
      /\ stream \o queue # <<>> /\ Head(stream) = (stream \o queue)[1]
    BY <1>1
<1> QED
    BY <1>2, <1>3 DEF Pending

\* A command that is handed over adds its image.
LEMMA EnqueueImages ==
    ASSUME Sound, Images, NEW cmd \in Commands, Enqueue(cmd), UNCHANGED gm
    PROVE  Images'
<1> SUFFICES ASSUME ~lost'
             PROVE  /\ due'[1] = gm
                    /\ \A i \in 1 .. Len(Pending') : due'[i + 1] = Effect(Pending'[i], due'[i])
    BY DEF Images, Effect
<1>1. ~lost
    BY DEF Enqueue, lost
<1>2. due' = Append(due, Effect(cmd, due[Len(due)]))
    BY <1>1 DEF Enqueue, Due
<1>3. Pending' = Append(Pending, cmd) /\ Pending \in Seq(Commands)
    BY PendingAppend, PendingIs
<1>4. /\ due \in Seq(Memory) /\ Len(due) = Len(Pending) + 1 /\ Len(Pending) \in Nat
      /\ due[Len(due)] \in Memory
    BY <1>1, DueIs
<1>5. Effect(cmd, due[Len(due)]) \in Memory
    BY <1>4, EffectType
<1>6. /\ Len(Pending') = Len(Pending) + 1
      /\ Pending'[Len(Pending) + 1] = cmd
      /\ \A i \in 1 .. Len(Pending) : Pending'[i] = Pending[i]
    BY <1>3
<1>7. /\ due'[Len(due) + 1] = Effect(cmd, due[Len(due)])
      /\ \A i \in 1 .. Len(due) : due'[i] = due[i]
    BY <1>2, <1>4, <1>5
<1>8. due'[1] = gm
    BY <1>1, <1>4, <1>7 DEF Images
<1>9. ASSUME NEW i \in 1 .. Len(Pending')
      PROVE  due'[i + 1] = Effect(Pending'[i], due'[i])
    <2>1. CASE i = Len(Pending) + 1
        <3>1. i = Len(due) /\ i \in 1 .. Len(due)
            BY <1>4, <2>1
        <3> QED
            BY <1>6, <1>7, <2>1, <3>1
    <2>2. CASE i # Len(Pending) + 1
        <3>1. i \in 1 .. Len(Pending) /\ i \in 1 .. Len(due) /\ i + 1 \in 1 .. Len(due)
            BY <1>4, <1>6, <2>2
        <3>2. due[i + 1] = Effect(Pending[i], due[i])
            BY <1>1, <3>1 DEF Images
        <3> QED
            BY <1>6, <1>7, <3>1, <3>2
    <2> QED
        BY <2>1, <2>2
<1> QED
    BY <1>8, <1>9

\* The device makes of the memory what the second image shows.
LEMMA DeviceImages ==
    ASSUME Sound, Images, Device
    PROVE  Images' /\ (~lost => due'[Len(due')] = due[Len(due)])
<1>1. lost' = lost
    BY DEF Device, lost
<1> SUFFICES ASSUME ~lost
             PROVE  /\ due'[1] = gm'
                    /\ \A i \in 1 .. Len(Pending') : due'[i + 1] = Effect(Pending'[i], due'[i])
                    /\ due'[Len(due')] = due[Len(due)]
    BY <1>1 DEF Images, Effect
<1>2. due' = Tail(due) /\ gm' = Effect(Head(stream), gm)
    BY DEF Device
<1>3. /\ Pending # <<>> /\ Pending' = Tail(Pending) /\ Head(stream) = Pending[1]
      /\ Pending \in Seq(Commands)
    BY PendingTail, PendingIs
<1>4. due \in Seq(Memory) /\ Len(due) = Len(Pending) + 1
    BY DueIs
<1>5. /\ Len(Pending) \in Nat \ {0} /\ Len(Pending') = Len(Pending) - 1
      /\ \A i \in 1 .. Len(Pending') : Pending'[i] = Pending[i + 1]
    BY <1>3, EmptySeq, HeadTailProperties
<1>6. due # <<>>
    BY <1>4, <1>5
<1>7. /\ Len(due') = Len(due) - 1
      /\ \A i \in 1 .. Len(due') : due'[i] = due[i + 1]
    BY <1>2, <1>4, <1>6, HeadTailProperties
<1>8. due'[1] = gm'
    <2>1. 1 \in 1 .. Len(Pending) /\ 1 \in 1 .. Len(due')
        BY <1>4, <1>5, <1>7
    <2>2. due[1 + 1] = Effect(Pending[1], due[1]) /\ due[1] = gm
        BY <2>1 DEF Images
    <2> QED
        BY <1>2, <1>3, <1>7, <2>1, <2>2
<1>9. ASSUME NEW i \in 1 .. Len(Pending')
      PROVE  due'[i + 1] = Effect(Pending'[i], due'[i])
    <2>1. i + 1 \in 1 .. Len(Pending) /\ i \in 1 .. Len(due') /\ i + 1 \in 1 .. Len(due')
        BY <1>4, <1>5, <1>7
    <2>2. due[(i + 1) + 1] = Effect(Pending[i + 1], due[i + 1])
        BY <2>1 DEF Images
    <2> QED
        BY <1>5, <1>7, <2>1, <2>2
<1>10. due'[Len(due')] = due[Len(due)]
    <2>1. Len(due') \in 1 .. Len(due') /\ Len(due') + 1 = Len(due)
        BY <1>4, <1>5, <1>7
    <2> QED
        BY <1>7, <2>1
<1> QED
    BY <1>8, <1>9, <1>10

\* Where nothing on its way changes, the images do not.
LEMMA ImagesStay ==
    ASSUME Images, UNCHANGED <<gm, work>>
    PROVE  Images'
<1>1. due' = due /\ gm' = gm /\ Pending' = Pending /\ lost' = lost
    BY DEF work, Pending, lost
<1> SUFFICES ASSUME ~lost'
             PROVE  /\ due'[1] = gm'
                    /\ \A i \in 1 .. Len(Pending') : due'[i + 1] = Effect(Pending'[i], due'[i])
    BY DEF Images, Effect
<1> QED
    BY <1>1 DEF Images


LEMMA IdleCallFrom ==
    ASSUME pc = "idle"
    PROVE  CallFrom
    BY DEF CallFrom, Preparing

LEMMA CallFromStays ==
    ASSUME CallFrom, UNCHANGED <<where, pc, call>>
    PROVE  CallFrom'
    BY DEF CallFrom, Preparing

LEMMA InitTraced == Init => Traced
<1> SUFFICES ASSUME Init PROVE Traced
    OBVIOUS
<1>1. Pending = <<>> /\ due[1] = gm
    BY DEF Init, Pending
<1>2. Images
    BY <1>1 DEF Images
<1>3. CallFrom
    BY IdleCallFrom DEF Init
<1> QED
    BY <1>2, <1>3, InitSound DEF Traced

\* The steps of the host: what they make of the call, and what they hand over.
LEMMA HostTraced ==
    ASSUME Sound, Images, CallFrom, HostStep
    PROVE  Images' /\ CallFrom'
<1>1. CASE GetWorkspaceSize
    <2>1. UNCHANGED <<where, gm, work>>
        BY <1>1 DEF GetWorkspaceSize
    <2>2. Images'
        BY <2>1, ImagesStay
    <2>3. CASE pc' \in {"sized", "ready"} /\ UNCHANGED <<call, thrown>>
        BY <1>1, <2>1, <2>2, <2>3 DEF GetWorkspaceSize, CallFrom, Preparing
    <2>4. CASE Throw
        BY <2>2, <2>4 DEF Throw, CallFrom, Preparing
    <2> QED
        BY <1>1, <2>3, <2>4 DEF GetWorkspaceSize
<1>2. CASE AllocWorkspace
    <2>1. UNCHANGED <<where, gm, work>> /\ pc = "sized"
        BY <1>2 DEF AllocWorkspace
    <2>2. Images'
        BY <2>1, ImagesStay
    <2>3. ASSUME NEW b \in Free, call' = [call EXCEPT !.ws = b], pc' = "ready"
          PROVE  CallFrom'
        <3>1. call \in Commands
            BY <2>1 DEF Sound, HostTypes, CallOK
        <3>2. call'.in = call.in /\ call'.out = call.out /\ call'.ws = b
            BY <2>3, <3>1 DEF Commands
        <3>3. \A t \in Tensor : where[t] # b
            BY DEF Free
        <3> QED
            BY <2>1, <2>3, <3>2, <3>3 DEF CallFrom, Preparing
    <2>4. CASE Throw
        BY <2>2, <2>4 DEF Throw, CallFrom, Preparing
    <2> QED
        BY <1>2, <2>2, <2>3, <2>4 DEF AllocWorkspace
<1>3. CASE Run
    <2>1. UNCHANGED gm /\ pc = "ready" /\ pc' = "idle"
        BY <1>3 DEF Run, Throw
    <2>2. CallFrom'
        BY <2>1 DEF CallFrom, Preparing
    <2>3. call \in Commands
        BY <2>1 DEF Sound, HostTypes, CallOK
    <2>4. CASE Enqueue(call)
        BY <2>1, <2>2, <2>3, <2>4, EnqueueImages
    <2>5. CASE UNCHANGED work
        BY <2>1, <2>2, <2>5, ImagesStay
    <2> QED
        BY <1>3, <2>4, <2>5 DEF Run
<1>4. CASE FinishSync
    <2>1. UNCHANGED <<gm, work>> /\ pc' = "idle"
        BY <1>4 DEF FinishSync, Throw
    <2> QED
        BY <2>1, ImagesStay DEF CallFrom, Preparing
<1> QED
    BY <1>1, <1>2, <1>3, <1>4 DEF HostStep

\* The calls the host begins.
LEMMA BeginTraced ==
    ASSUME Sound, Images, CallFrom, NEW op \in Op, NEW in \in Tensor, NEW out \in Tensor,
           Convert(op, in, out) \/ ConvertThrows(op, in, out) \/ KernelCmd(op, in, out)
    PROVE  Images' /\ CallFrom'
<1>1. CASE Convert(op, in, out)
    <2>1. UNCHANGED <<where, gm, work>> /\ pc' = "converted"
        BY <1>1 DEF Convert
    <2>2. PICK made : call' = Command(op, in, out, made)
        BY <1>1 DEF Convert
    <2>3. CallFrom'
        BY <2>1, <2>2 DEF CallFrom, Preparing, Command
    <2> QED
        BY <2>1, <2>3, ImagesStay
<1>2. CASE ConvertThrows(op, in, out)
    <2>1. UNCHANGED <<gm, work>> /\ pc' = "idle"
        BY <1>2 DEF ConvertThrows, Throw
    <2> QED
        BY <2>1, ImagesStay DEF CallFrom, Preparing
<1>3. CASE KernelCmd(op, in, out)
    <2>1. /\ UNCHANGED <<where, gm, work>> /\ pc' = "ready"
          /\ call' = Command(op, in, out, {})
        BY <1>3 DEF KernelCmd
    <2>2. CallFrom'
        BY <2>1 DEF CallFrom, Preparing, Command
    <2> QED
        BY <2>1, <2>2, ImagesStay
<1> QED
    BY <1>1, <1>2, <1>3

\* The steps of the queue's thread and of the device.
LEMMA OthersTraced ==
    ASSUME Sound, Images, CallFrom, Consume \/ ConsumeDropped \/ ConsumeFails \/ Device
    PROVE  Images' /\ CallFrom'
<1>1. CallFrom'
    BY CallFromStays DEF Consume, ConsumeDropped, ConsumeFails, Device, host
<1>2. CASE Consume
    <2>1. due' = due /\ gm' = gm /\ lost' = lost
        BY <1>2 DEF Consume, lost
    <2>2. /\ Len(Pending') = Len(Pending)
          /\ \A i \in 1 .. Len(Pending') :
                \A mem : Effect(Pending'[i], mem) = Effect(Pending[i], mem)
        BY <1>2, PendingMoves
    <2> SUFFICES ASSUME ~lost'
                 PROVE  /\ due'[1] = gm'
                        /\ \A i \in 1 .. Len(Pending') : due'[i + 1] = Effect(Pending'[i], due'[i])
        BY <1>1 DEF Images, Effect
    <2> QED
        BY <2>1, <2>2 DEF Images
<1>3. CASE ConsumeDropped \/ ConsumeFails
    BY <1>1, <1>3 DEF ConsumeDropped, ConsumeFails, Images, lost
<1>4. CASE Device
    BY <1>1, <1>4, DeviceImages
<1> QED
    BY <1>2, <1>3, <1>4

LEMMA NextTraced == Traced /\ [Next]_vars => Traced'
<1> SUFFICES ASSUME Sound, Images, CallFrom, [Next]_vars
             PROVE  Images' /\ CallFrom'
    BY NextSound DEF Traced
<1>1. ASSUME NEW t \in Tensor, NewTensor(t) \/ DropTensor(t) \/ Sync(t)
      PROVE  Images' /\ CallFrom'
    <2>1. UNCHANGED <<gm, work>>
        BY <1>1 DEF NewTensor, DropTensor, Sync
    <2>2. CallFrom'
        BY <1>1 DEF NewTensor, DropTensor, Sync, CallFrom, Preparing, host
    <2> QED
        BY <2>1, <2>2, ImagesStay
<1>2. CASE UNCHANGED vars
    BY <1>2, ImagesStay, CallFromStays DEF vars, work
<1> QED
    BY <1>1, <1>2, HostTraced, BeginTraced, OthersTraced DEF Next

LEMMA AlwaysTraced == Spec => []Traced
    BY InitTraced, NextTraced, PTL DEF Spec


\* The memory as it will be when all that is on its way has run.
Last == due[Len(due)]

\* A command between tensors, whose workspace is no tensor's, changes the value
\* of the tensor it writes and of no other.
LEMMA EnqueueIsExec ==
    ASSUME Sound, NEW cmd \in Commands, NEW s \in Tensor, NEW u \in Tensor,
           cmd.in = where[s], cmd.out = where[u],
           \A t \in Tensor : where[t] = cmd.ws => where[t] = NoBlock,
           Enqueue(cmd), UNCHANGED <<where, seen>>
    PROVE  [Program!Next]_Program!tvars
<1>1. lost' = lost
    BY DEF Enqueue, lost
<1>2. CASE lost
    <2>1. DueValue' = DueValue /\ Existing' = Existing
        BY <1>1, <1>2 DEF DueValue, Existing
    <2> QED
        BY <1>1, <2>1 DEF Program!tvars
<1>3. CASE ~lost
    <2> DEFINE scratched == [b \in Block |-> IF b = cmd.ws THEN Junk ELSE Last[b]]
    <2>1. /\ due \in Seq(Memory) /\ Len(due) \in 1 .. Len(due) /\ Last \in Memory
        BY <1>3, DueIs DEF Last
    <2>2. Effect(cmd, Last) \in Memory
        BY <2>1, EffectType
    <2>3. due' = Append(due, Effect(cmd, Last))
        BY <1>3 DEF Enqueue, Due, Last
    <2>4. Last' = Effect(cmd, Last)
        <3>1. Len(due') = Len(due) + 1 /\ due'[Len(due) + 1] = Effect(cmd, Last)
            BY <2>1, <2>2, <2>3
        <3> QED
            BY <3>1 DEF Last
    <2>5. /\ cmd.in \in Block /\ cmd.out \in Block /\ cmd.op \in Op
          /\ cmd.in # NoBlock /\ cmd.out # NoBlock
          /\ cmd.in # cmd.ws /\ cmd.out # cmd.ws
        BY NoBlockAssumption DEF Commands
    <2>6. scratched \in Memory /\ scratched[cmd.in] = Last[cmd.in]
        BY <2>1, <2>5, JunkAssumption DEF Memory
    <2>7. Effect(cmd, Last) = [scratched EXCEPT ![cmd.out] = Result(cmd.op, Last[cmd.in])]
        BY <2>5, <2>6 DEF Effect
    <2>8. ASSUME NEW b \in Block, b # cmd.ws
          PROVE  Last'[b] = IF b = cmd.out THEN Result(cmd.op, Last[cmd.in]) ELSE Last[b]
        <3>1. scratched[b] = Last[b]
            BY <2>8
        <3> HIDE DEF scratched
        <3> QED
            BY <2>4, <2>5, <2>6, <2>7, <3>1 DEF Memory
    <2> HIDE DEF scratched
    <2>9. \A t \in Tensor : /\ DueValue[t] = IF where[t] = NoBlock THEN Junk ELSE Last[where[t]]
                            /\ DueValue'[t] = IF where[t] = NoBlock THEN Junk ELSE Last'[where[t]]
        BY <1>1, <1>3 DEF DueValue, Last
    <2>10. ASSUME NEW t \in Tensor
           PROVE  DueValue'[t] = IF t = u THEN Result(cmd.op, DueValue[s]) ELSE DueValue[t]
        <3>1. DueValue[s] = Last[cmd.in]
            BY <2>5, <2>9
        <3>2. CASE where[t] = NoBlock
            BY <2>5, <2>9, <3>2
        <3>3. CASE where[t] # NoBlock
            <4>1. where[t] \in Block /\ where[t] # cmd.ws
                BY <3>3 DEF Sound, HostTypes, BlockOrNone
            <4>2. where[t] = cmd.out <=> t = u
                BY <2>5, <3>3 DEF Sound, HostTypes
            <4>3. DueValue'[t] = Last'[where[t]] /\ DueValue[t] = Last[where[t]]
                BY <2>9, <3>3
            <4> QED
                BY <2>8, <3>1, <4>1, <4>2, <4>3
        <3> QED
            BY <3>2, <3>3
    <2>11. DueValue' = [DueValue EXCEPT ![u] = Result(cmd.op, DueValue[s])]
        <3>1. DueValue = [t \in Tensor |-> DueValue[t]] /\ DueValue' = [t \in Tensor |-> DueValue'[t]]
            BY DEF DueValue
        <3> QED
            BY <2>10, <3>1
    <2>12. s \in Existing /\ u \in Existing /\ Existing' = Existing
        BY <2>5 DEF Existing
    <2>13. Program!Exec(cmd.op, s, u)
        BY <1>1, <1>3, <2>11, <2>12 DEF Program!Exec
    <2> QED
        BY <2>5, <2>13 DEF Program!Next
<1> QED
    BY <1>2, <1>3

\* What changes neither the last image nor where the tensors are cannot be seen.
LEMMA Unseen ==
    ASSUME lost' = lost, ~lost => Last' = Last, UNCHANGED <<where, seen>>
    PROVE  UNCHANGED Program!tvars
<1>1. DueValue' = DueValue
    <2>1. CASE lost
        BY <2>1 DEF DueValue
    <2>2. CASE ~lost
        BY <2>2 DEF DueValue, Last
    <2> QED
        BY <2>1, <2>2
<1> QED
    BY <1>1 DEF Program!tvars, Existing

LEMMA WorkUnseen ==
    ASSUME UNCHANGED <<where, seen, work>>
    PROVE  UNCHANGED Program!tvars
<1>1. lost' = lost /\ Last' = Last
    BY DEF work, lost, Last
<1> QED
    BY <1>1, Unseen

\* Making and giving up a tensor is just that: no other value changes.
LEMMA TensorComesAndGoes ==
    ASSUME Sound, NEW t \in Tensor, NewTensor(t) \/ DropTensor(t)
    PROVE  [Program!Next]_Program!tvars
<1>1. PICK b \in BlockOrNone : where' = [where EXCEPT ![t] = b]
    BY DEF NewTensor, DropTensor, BlockOrNone, Free
<1>2. lost' = lost /\ Last' = Last /\ seen' = seen
    BY DEF NewTensor, DropTensor, host, work, lost, Last
<1> DEFINE c == IF lost \/ b = NoBlock THEN Junk ELSE Last[b]
<1>3. c \in Content
    <2>1. CASE lost \/ b = NoBlock
        BY <2>1, JunkAssumption
    <2>2. CASE ~lost /\ b # NoBlock
        BY <2>2, DueIs DEF BlockOrNone, Memory, Last
    <2> QED
        BY <2>1, <2>2
<1>4. DueValue' = [DueValue EXCEPT ![t] = c]
    <2>1. where \in [Tensor -> BlockOrNone]
        BY DEF Sound, HostTypes
    <2>2. \A u \in Tensor :
            /\ DueValue[u] = IF lost \/ where[u] = NoBlock THEN Junk ELSE Last[where[u]]
            /\ DueValue'[u] = IF lost \/ where'[u] = NoBlock THEN Junk ELSE Last[where'[u]]
        BY <1>2 DEF DueValue, Last
    <2>3. DueValue = [u \in Tensor |-> DueValue[u]] /\ DueValue' = [u \in Tensor |-> DueValue'[u]]
        BY DEF DueValue
    <2>4. \A u \in Tensor : where'[u] = IF u = t THEN b ELSE where[u]
        BY <1>1, <2>1
    <2>5. \A u \in Tensor : DueValue'[u] = IF u = t THEN c ELSE DueValue[u]
        BY <2>2, <2>4
    <2> HIDE DEF c
    <2> QED
        BY <2>3, <2>5
<1> HIDE DEF c
<1>5. CASE NewTensor(t)
    <2>1. where[t] = NoBlock /\ b # NoBlock
        <3>1. where'[t] # NoBlock
            BY <1>5, NoBlockAssumption DEF NewTensor, Free, Sound, HostTypes
        <3> QED
            BY <1>1, <1>5, <3>1 DEF NewTensor, Sound, HostTypes
    <2>2. t \notin Existing /\ Existing' = Existing \cup {t}
        BY <1>1, <2>1 DEF Existing, Sound, HostTypes
    <2>3. Program!New(t)
        BY <1>2, <1>3, <1>4, <2>2 DEF Program!New
    <2> QED
        BY <2>3 DEF Program!Next
<1>6. CASE DropTensor(t)
    <2>1. where[t] # NoBlock /\ where'[t] = NoBlock
        BY <1>6 DEF DropTensor, Sound, HostTypes
    <2>2. t \in Existing /\ Existing' = Existing \ {t}
        BY <1>1, <2>1 DEF Existing, Sound, HostTypes
    <2>3. DueValue'[t] = Junk
        BY <2>1 DEF DueValue
    <2>4. DueValue' = [DueValue EXCEPT ![t] = Junk]
        BY <1>4, <2>3 DEF DueValue
    <2>5. Program!Drop(t)
        BY <1>2, <2>2, <2>4 DEF Program!Drop
    <2> QED
        BY <2>5 DEF Program!Next
<1> QED
    BY <1>5, <1>6

LEMMA SyncIsRead ==
    ASSUME Sound, Images, CallFrom, FinishSync
    PROVE  [Program!Next]_Program!tvars
<1>1. pc = "waiting" /\ UNCHANGED <<where, work>>
    BY DEF FinishSync
<1>2. CASE UNCHANGED seen
    BY <1>1, <1>2, WorkUnseen
<1>3. CASE ~failed /\ Pending = <<>> /\ seen' = gm[call.in]
    <2>1. PICK t \in Tensor : call.in = where[t]
        BY <1>1 DEF CallFrom
    <2>2. call.in \in Block /\ call.in # NoBlock
        BY <1>1, NoBlockAssumption DEF Sound, HostTypes, CallOK
    <2>3. /\ lost' = lost /\ DueValue' = DueValue /\ Existing' = Existing
          /\ t \in Existing
        BY <1>1, <2>1, <2>2 DEF work, lost, DueValue, Existing
    <2>4. CASE lost
        <3>1. seen' \in Content
            BY <1>3, <2>2 DEF Sound, WorkTypes, Memory
        <3> QED
            BY <2>3, <2>4, <3>1 DEF Program!Read, Program!Next
    <2>5. CASE ~lost
        <3>1. Len(due) = 1 /\ due[1] = gm
            BY <1>3, <2>5, DueIs, PendingIs DEF Images
        <3>2. DueValue[t] = seen'
            BY <1>3, <2>1, <2>2, <2>5, <3>1 DEF DueValue
        <3>3. Program!Read(t)
            BY <2>3, <2>5, <3>2 DEF Program!Read
        <3> QED
            BY <3>3 DEF Program!Next
    <2> QED
        BY <2>4, <2>5
<1> QED
    BY <1>2, <1>3 DEF FinishSync

LEMMA InitIsInit == Init => Program!Init
<1> SUFFICES ASSUME Init PROVE Program!Init
    OBVIOUS
<1>1. DueValue = [t \in Tensor |-> Junk]
    BY DEF Init, DueValue
<1>2. lost = FALSE /\ Existing = {}
    BY DEF Init, lost, Existing
<1> QED
    BY <1>1, <1>2 DEF Init, Program!Init

LEMMA StepIsStep == Traced /\ [Next]_vars => [Program!Next]_Program!tvars
<1> SUFFICES ASSUME Sound, Images, CallFrom, [Next]_vars
             PROVE  [Program!Next]_Program!tvars
    BY DEF Traced
<1>1. ASSUME NEW t \in Tensor, NewTensor(t) \/ DropTensor(t) \/ Sync(t)
      PROVE  [Program!Next]_Program!tvars
    <2>1. CASE Sync(t)
        BY <2>1, WorkUnseen DEF Sync
    <2> QED
        BY <1>1, <2>1, TensorComesAndGoes
<1>2. ASSUME NEW op \in Op, NEW in \in Tensor, NEW out \in Tensor,
             Convert(op, in, out) \/ ConvertThrows(op, in, out) \/ KernelCmd(op, in, out)
      PROVE  [Program!Next]_Program!tvars
    BY <1>2, WorkUnseen DEF Convert, ConvertThrows, KernelCmd
<1>3. CASE GetWorkspaceSize \/ AllocWorkspace
    BY <1>3, WorkUnseen DEF GetWorkspaceSize, AllocWorkspace
<1>4. CASE Run
    <2>1. pc = "ready" /\ UNCHANGED <<where, seen>>
        BY <1>4 DEF Run
    <2>2. call \in Commands
        BY <2>1 DEF Sound, HostTypes, CallOK
    <2>3. PICK s, u \in Tensor : call.in = where[s] /\ call.out = where[u]
        BY <2>1 DEF CallFrom, Preparing
    <2>4. \A t \in Tensor : where[t] = call.ws => where[t] = NoBlock
        BY <2>1 DEF CallFrom, Preparing
    <2>5. CASE Enqueue(call)
        BY <2>1, <2>2, <2>3, <2>4, <2>5, EnqueueIsExec
    <2>6. CASE UNCHANGED work
        BY <2>1, <2>6, WorkUnseen
    <2> QED
        BY <1>4, <2>5, <2>6 DEF Run
<1>5. CASE FinishSync
    BY <1>5, SyncIsRead
<1>6. CASE Consume
    BY <1>6, Unseen DEF Consume, lost, Last
<1>7. CASE ConsumeDropped \/ ConsumeFails
    <2>1. lost' /\ seen' = seen
        BY <1>7 DEF ConsumeDropped, ConsumeFails, lost, host
    <2>2. lost' \in BOOLEAN
        BY DEF lost
    <2>3. DueValue' = [t \in Tensor |-> Junk]
        BY <2>1 DEF DueValue
    <2>4. Existing' = Existing
        BY <1>7 DEF ConsumeDropped, ConsumeFails, Existing
    <2>5. Program!Lose
        BY <2>1, <2>2, <2>3, <2>4 DEF Program!Lose
    <2> QED
        BY <2>5 DEF Program!Next
<1>8. CASE Device
    <2>1. lost' = lost /\ UNCHANGED <<where, seen>>
        BY <1>8 DEF Device, lost, host
    <2>2. ~lost => Last' = Last
        BY <1>8, DeviceImages DEF Last
    <2> QED
        BY <2>1, <2>2, Unseen
<1>9. CASE UNCHANGED vars
    BY <1>9, WorkUnseen DEF vars, work
<1> QED
    BY <1>1, <1>2, <1>3, <1>4, <1>5, <1>6, <1>7, <1>8, <1>9 DEF Next, HostStep

\* Whatever memory is reused for while commands on it are under way, and however
\* far queue and device lag behind, the caller sees tensors and operations that
\* take effect one after the other.
THEOREM CallsImplementProgram == Spec => ImplementsTensorProgram
<1>1. Spec => Program!Init /\ [][Program!Next]_Program!tvars
    BY InitIsInit, StepIsStep, AlwaysTraced, PTL DEF Spec
<1> QED
    BY <1>1 DEF ImplementsTensorProgram, Program!Spec
==============================================================================
