SPECIFICATION Spec
CONSTANTS
    WordBits = 16
    ImmBits = 6
    Fuel = 30
    StepBound = 600
    HoistOrders = {"up", "down"}
    Programs <- MCPrograms
    AnswerLists <- MCAnswerLists
    Family = {"loops", "leaving", "nested", "conditions", "bodies", "floats", "arrays", "calls", "constants", "initialisers"}
INVARIANTS
    OptimizerTypeOK
    DefinitionsDominateUses
    PhisMatchPredecessors
    NoPhiBehindTakenBranch
    SameBehaviour
PROPERTIES
    OptimizerEnds
