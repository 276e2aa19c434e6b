SPECIFICATION Spec
CONSTANTS
    MaxBlocks = 10
    MaxFunctions = 2
    MaxOperators = 1
INVARIANTS
    MiddleEndTypeOK
    TargetsFollowNesting
    EveryBlockEnds
    DominatorsExact
    ThrowsOnlyForUnreached
    LoopNestExact
PROPERTIES
    AnalysisTermination
