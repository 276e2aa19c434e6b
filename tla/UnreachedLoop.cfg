SPECIFICATION Spec
CONSTANTS
    MaxBlocks = 11
    MaxFunctions = 1
    MaxOperators = 0
INVARIANT
    EveryFunctionAnalysed
CHECK_DEADLOCK FALSE
