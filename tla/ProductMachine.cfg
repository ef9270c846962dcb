\* The engine on the Product table and the clearances of its work, one project.
CONSTANTS
    p1 = p1
    k1 = k1
    NoKey = NoKey
    NoState = NoState
    Subjects = {p1}
    Keys = {k1}
    MaxRetries = 3
    InitialState = "IDEA_RECEIVED"
    Table <- ProductTransitions
    ExceptionStates <- ProductExceptionStates
    TerminalStates <- ProductTerminalStates
    Clearances <- ProductClearances
SPECIFICATION CSpec
INVARIANTS TypeOK RecoveryPoint RetryBudget WorkIsCleared
PROPERTY ResumesWhereItStopped
