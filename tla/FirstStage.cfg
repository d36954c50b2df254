\* Kernels and initrds of any size.
SPECIFICATION Spec
CONSTANTS
    Page = 2
    NPages = 8
    Word = 128
    SRAM0 = 24
    Images <- AnyImage
INVARIANTS
    TypeOK
    KernelInPlace
    BootromUsable
    InitrdHandedOver
CHECK_DEADLOCK FALSE
