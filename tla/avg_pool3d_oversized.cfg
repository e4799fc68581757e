CONSTANTS
    Inputs <- Cubes
    KernelSizes <- WideKernels
    Strides <- PlainStrides
    Paddings <- NoPadding
    Beyond = {0, 2}
SPECIFICATION Spec
INVARIANT AgreesWithTorch
