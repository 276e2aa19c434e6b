SPECIFICATION Spec
CONSTANTS
    WordBits = 16
    ImmBits = 6
    Fuel = 30
    StepBound = 600
    HoistOrders = {"up"}
    Programs <- MCPrograms
    AnswerLists <- MCAnswerLists
    Family = {"braces"}
INVARIANTS
    SameBehaviour
