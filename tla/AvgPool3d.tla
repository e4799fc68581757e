------------------------------ MODULE AvgPool3d ------------------------------
(***************************************************************************)
(* The output size that avg_pool3d computes and checks before it allocates *)
(* the result and hands the arguments to aclnnAvgPool3d.  Along each       *)
(* dimension window number o starts at input element o * stride - padding  *)
(* and spans kernel elements.                                              *)
(***************************************************************************)
EXTENDS Integers, Sequences

Dim == 1 .. 3

\* The lists are of any length and their elements any numbers: the caller
\* passes what it likes.
CONSTANTS
    Inputs,        \* extents of the input: depth, height and width
    KernelSizes,   \* values of kernel_size
    Strides,       \* values of stride
    Paddings,      \* values of padding
    Beyond         \* what a read past the end of a list may find

ASSUME ArgsAssumption ==
    /\ Inputs \subseteq [Dim -> Nat]
    /\ KernelSizes \subseteq Seq(Int)
    /\ Strides \subseteq Seq(Int)
    /\ Paddings \subseteq Seq(Int)
    /\ Beyond \subseteq Int

VARIABLES
    pc,      \* the last step of the call that is complete
    args,    \* what the caller passes; never changed
    sizes,   \* kernel, stride and padding of each dimension
    out      \* the output size, depth, height and width

vars == <<pc, args, sizes, out>>

Args == [self        : Inputs,
         kernel_size : KernelSizes,
         stride      : Strides,
         padding     : Paddings,
         ceil_mode   : BOOLEAN]

-----------------------------------------------------------------------------
(* Arithmetic.                                                             *)

Abs(a) == IF a >= 0 THEN a ELSE -a

\* C++ division rounds towards zero.
Quot(a, b) ==
    IF (a >= 0) = (b >= 0) THEN Abs(a) \div Abs(b) ELSE -(Abs(a) \div Abs(b))

\* Mutant: a division that leaves a remainder is not rounded up.
CeilDivDown(value, factor) == IF factor = 0 THEN 0 ELSE Quot(value, factor)

CeilDiv(value, factor) ==
    IF factor = 0 THEN 0
    ELSE IF value = factor * Quot(value, factor) THEN Quot(value, factor)
    ELSE Quot(value, factor) + 1

\* Elements of the padded input beyond the first window.
Room(self, p) == self + 2 * p.padding - p.kernel

RawSize(self, p, ceil_mode) ==
    IF ceil_mode THEN CeilDiv(Room(self, p), p.stride) + 1
    ELSE Quot(Room(self, p), p.stride) + 1

\* Mutant: only a window that starts after the right padding began is dropped.
TrimmedLate(size, self, p) ==
    IF (size - 1) * p.stride > self + p.padding THEN size - 1 ELSE size

\* In ceil_mode a last window that starts in the right padding is dropped.
Trimmed(size, self, p) ==
    IF (size - 1) * p.stride >= self + p.padding THEN size - 1 ELSE size

-----------------------------------------------------------------------------
Init ==
    /\ pc = "called"
    /\ args \in Args
    /\ sizes = <<>>
    /\ out = <<>>

Throw == pc' = "thrown" /\ UNCHANGED <<args, sizes, out>>

\* Element d of a list: a list of one element stands for all three dimensions,
\* and nothing checks that one of more elements has as many as are read.
ReadAt(list, d) ==
    IF Len(list) = 1 THEN {list[1]}
    ELSE IF d <= Len(list) THEN {list[d]}
    ELSE Beyond

Reads(list) ==
    {r \in [Dim -> UNION {ReadAt(list, d) : d \in Dim}] : \A d \in Dim : r[d] \in ReadAt(list, d)}

\* The strides; they default to the kernel.
StrideReads(kernel) == IF args.stride = <<>> THEN {kernel} ELSE Reads(args.stride)

\* One kernel, stride and padding per dimension.
Dimensions(kernel, stride, padding) ==
    [d \in Dim |-> [kernel |-> kernel[d], stride |-> stride[d], padding |-> padding[d]]]

\* Mutant: a negative padding passes.
AcceptableUnsigned(p) == p.stride # 0 /\ p.padding <= Quot(p.kernel, 2)

\* Mutant: the padding is not compared with the kernel.
AcceptablePadded(p) == p.stride # 0 /\ p.padding >= 0

Acceptable(p) ==
    /\ p.stride # 0
    /\ p.padding >= 0
    /\ p.padding <= Quot(p.kernel, 2)

\* The arguments become one kernel, stride and padding for each dimension.
Generalize ==
    /\ pc = "called"
    /\ IF args.kernel_size = <<>> THEN Throw
       ELSE \E kernel \in Reads(args.kernel_size) :
            \E stride \in StrideReads(kernel), padding \in Reads(args.padding) :
               LET dims == Dimensions(kernel, stride, padding)
               IN  IF \A d \in Dim : Acceptable(dims[d])
                   THEN pc' = "generalized" /\ sizes' = dims /\ UNCHANGED <<args, out>>
                   ELSE Throw

\* A list that is read past its end.
Short(list) == Len(list) # 1 /\ Len(list) < 3

\* A read past the end of a list may end the process instead; padding is read
\* only when no stride was found to be zero.
Fault ==
    /\ pc = "called"
    /\ args.kernel_size # <<>>
    /\ \/ Short(args.kernel_size)
       \/ args.stride # <<>> /\ Short(args.stride)
       \/ /\ Short(args.padding)
          /\ \E kernel \in Reads(args.kernel_size) : \E stride \in StrideReads(kernel) :
                \A d \in Dim : stride[d] # 0
    /\ pc' = "faulted"
    /\ UNCHANGED <<args, sizes, out>>

RawSizes == [d \in Dim |-> RawSize(args.self[d], sizes[d], args.ceil_mode)]

\* The sizes before the trimming have to be positive.
OutputSize ==
    /\ pc = "generalized"
    /\ IF \A d \in Dim : RawSizes[d] > 0
       THEN pc' = "sized" /\ out' = RawSizes /\ UNCHANGED <<args, sizes>>
       ELSE Throw

TrimOutput ==
    /\ pc = "sized"
    /\ pc' = "done"
    /\ out' = IF args.ceil_mode
              THEN [d \in Dim |-> Trimmed(out[d], args.self[d], sizes[d])] ELSE out
    /\ UNCHANGED <<args, sizes>>

\* The result has been allocated, an exception thrown or the process ended.
Finished == pc \in {"done", "thrown", "faulted"} /\ UNCHANGED vars

Next == Generalize \/ Fault \/ OutputSize \/ TrimOutput \/ Finished

Spec == Init /\ [][Next]_vars

-----------------------------------------------------------------------------
(* Correctness.                                                            *)

\* Every variable has its type: past the checks no stride is zero and no
\* padding negative, and a size that is allocated is not negative.
TypeOK ==
    /\ pc \in {"called", "generalized", "sized", "done", "thrown", "faulted"}
    /\ args \in Args
    /\ pc \in {"generalized", "sized", "done"} =>
          sizes \in [Dim -> [kernel : Int, stride : Int \ {0}, padding : Nat]]
    /\ pc = "sized" => out \in [Dim -> Nat \ {0}]
    /\ pc = "done" => out \in [Dim -> Nat]

\* What a dimension needs for its windows to mean something.  PyTorch's own
\* operator requires it; the checks of this one do not.
Proper(self, p) == self > 0 /\ p.kernel > 0 /\ p.stride > 0

\* The first element of window o, and the one after its last.
Start(p, o) == o * p.stride - p.padding
End(p, o)   == Start(p, o) + p.kernel

\* Along a proper dimension every window covers an element of the input, even
\* if another dimension is not proper: no average is taken over padding alone,
\* which has no elements when count_include_pad is false.
EveryWindowTouchesInput ==
    pc = "done" => \A d \in Dim : Proper(args.self[d], sizes[d]) =>
        \A o \in 0 .. out[d] - 1 :
            Start(sizes[d], o) < args.self[d] /\ End(sizes[d], o) > 0

\* Along a proper dimension no window is left out: one more would leave the padded input or, in
\* ceil_mode, start beyond the input when the last one did not reach its end.
NoWindowLeftOut ==
    pc = "done" => \A d \in Dim : Proper(args.self[d], sizes[d]) =>
        LET padded == args.self[d] + sizes[d].padding
        IN  IF args.ceil_mode
            THEN \/ Start(sizes[d], out[d]) >= args.self[d]
                 \/ End(sizes[d], out[d] - 1) >= padded
            ELSE End(sizes[d], out[d]) > padded

\* The size PyTorch computes for a pooling window: the division rounds down,
\* whatever the sign, ceil_mode adds stride - 1 to the dividend, and a last
\* window that does not start in the input or its left padding is dropped.
TorchSize(self, p, ceil_mode) ==
    LET dividend == IF ceil_mode THEN Room(self, p) + p.stride - 1 ELSE Room(self, p)
        last     == dividend \div p.stride
    IN  IF ceil_mode /\ Start(p, last) >= self THEN last ELSE last + 1

\* The output has the shape of PyTorch's own avg_pool3d, to which the tests
\* compare it, and the calls rejected for their size are those that PyTorch
\* rejects, whose size would not be positive.
AgreesWithTorch ==
    sizes # <<>> /\ (\A d \in Dim : Proper(args.self[d], sizes[d])) =>
        /\ pc = "done" => \A d \in Dim :
              out[d] = TorchSize(args.self[d], sizes[d], args.ceil_mode)
        /\ pc = "thrown" => \E d \in Dim :
              TorchSize(args.self[d], sizes[d], args.ceil_mode) <= 0

\* Rounding towards zero and rounding down are the same for this dimension: its
\* first window fits the padded input, or the division leaves no remainder.
SameRounding(self, p) ==
    Room(self, p) >= 0 \/ Room(self, p) = p.stride * Quot(Room(self, p), p.stride)

\* The size is PyTorch's, and so is the rejection, unless a window is larger
\* than the padded input and the division leaves a remainder.
FittingCallsAgree ==
    sizes # <<>> /\ (\A d \in Dim : SameRounding(args.self[d], sizes[d])) => AgreesWithTorch
==============================================================================
