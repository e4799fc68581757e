CONSTANTS
    Inputs <- SomeInputs
    KernelSizes <- SomeKernels
    Strides <- SomeStrides
    Paddings <- SomePaddings
    Beyond = {0, 2}
SPECIFICATION Spec
INVARIANTS
    TypeOK
    EveryWindowTouchesInput
    NoWindowLeftOut
    FittingCallsAgree
