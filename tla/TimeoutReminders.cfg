\* One project that waits for answers and for approval while a clock counts to six;
\* a second stay in one state, and a second reminder, need five readings.
CONSTANTS
    Subjects = {p}
    Moves <- MCMoves
    InitialState = "IDEA_RECEIVED"
    Limits <- MCLimits
    MaxTime = 6
    Idle = Idle
SPECIFICATION Spec
INVARIANT TypeOK
PROPERTY RemindersAreSpaced
