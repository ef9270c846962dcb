\* Three sessions, each serving any number of requests.
CONSTANTS
    Sessions = {a, b, c}
    Questions = {q1, q2}
    Requirements = {r}
    MaxDecisions = 2
    MaxVersion = 2
    NoQuestion = NoQuestion
    NoStatus = NoStatus
SYMMETRY SessionSymmetry
SPECIFICATION Spec
INVARIANTS
    TypeOK
    NeverStranded
    DecisionsAreDense
    DraftsAreUpToDate
    NoDeadlock
PROPERTY MemoryIsSequential
