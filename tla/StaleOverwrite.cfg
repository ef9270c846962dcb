\* Two requests that loaded the same status.
CONSTANTS
    Sessions = {a, b}
    Questions = {q1, q2}
    Requirements = {r}
    MaxDecisions = 2
    MaxVersion = 2
    NoQuestion = NoQuestion
    NoStatus = NoStatus
SPECIFICATION Spec
PROPERTY EventsFollowEachOther
