SPECIFICATION DceSpec
CONSTANTS
    pro = pro
    b1 = b1
    b2 = b2
    epi = epi
    x = x
    y = y
    fps = fps
    sv = sv
    ra = ra
    fp = fp
    sp = sp
    a0 = a0
    s0 = s0
    zero = zero
    Virt <- mcVirt
    Phys <- mcPhys
    Zero = zero
    RA = ra
    FP = fp
    SP = sp
    CalleeSaved <- mcCalleeSaved
    CallerSaved <- mcCallerSaved
    Block <- mcBlock
    Blocks <- mcBlocks
    Prologue = pro
    Epilogue = epi
    Func <- mcFarFunc
INVARIANTS
    RemovedStayDead
CHECK_DEADLOCK FALSE
