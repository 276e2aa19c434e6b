SPECIFICATION Spec
CONSTANTS
    v1 = v1
    v2 = v2
    v3 = v3
    v4 = v4
    p1 = p1
    p2 = p2
    m1 = m1
    m2 = m2
    Virt <- mcFourVirt
    Phys <- mcPhys
    Move <- mcMove
    NullPtr = NullPtr
    Type <- mcType
    Allocatable <- mcAllocatable
    Input <- mcPrecoloredInput
INVARIANT
    NoSharedRegister
CHECK_DEADLOCK FALSE
