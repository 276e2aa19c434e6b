SPECIFICATION MCBackEndSpec
CONSTANTS
    WordBits = 14
    ImmBits = 6
    ArgRegs = 1
    SavedGeneral = 1
    SavedFloat = 0
    Signatures <- MCSignatures
    GlobalWords <- MCGlobalWords
    ArgLists <- MCArgLists
    CallAnswers <- MCCallAnswers
    Family = {}
    Virt <- MCVirt
    Phys <- MCPhys
    Move <- MCMove
    Type <- MCType
    Allocatable <- MCAllocatable
    NullPtr = NullPtr
    Input = {}
    ParamRegs <- MCParamRegs
    CallerSaved <- MCCallerSaved
    HashOrders = {1, 3, 7, 11, 17, 23, 28, 30}
INVARIANTS
    BackEndTypeOK
    SpilledLeaveTheCode
    ColorsFitTheCode
    SameBehaviour
    InstructionsAccepted
