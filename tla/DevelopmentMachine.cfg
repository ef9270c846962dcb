\* The engine on the Development table and the clearances of its work, one task.
CONSTANTS
    t1 = t1
    k1 = k1
    NoKey = NoKey
    NoState = NoState
    Subjects = {t1}
    Keys = {k1}
    MaxRetries = 3
    InitialState = "RECEIVED"
    Table <- DevelopmentTransitions
    ExceptionStates <- DevelopmentExceptionStates
    TerminalStates <- DevelopmentTerminalStates
    Clearances <- DevelopmentClearances
SPECIFICATION CSpec
INVARIANTS TypeOK RecoveryPoint RetryBudget WorkIsCleared
PROPERTY ResumesWhereItStopped
