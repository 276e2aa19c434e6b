SPECIFICATION MCSpec
CONSTANTS
    WordBits = 12
    ImmBits = 5
    ArgRegs = 1
    SavedGeneral = 9
    SavedFloat = 8
    Signatures <- MCSignatures
    GlobalWords <- MCGlobalWords
    ArgLists <- MCArgLists
    CallAnswers <- MCCallAnswers
    Family = {"arithmetic", "comparison", "phis", "memory", "calls", "floats",
              "left constants", "zero divisors"}
INVARIANTS
    LoweringTypeOK
    ComputesTheSame
    RestoresCaller
    AccessesAligned
    InstructionsAccepted
