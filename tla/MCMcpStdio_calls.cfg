SPECIFICATION Spec
CONSTANTS
    Thread = {c1, c2}
    MaxRequests = 2
    MaxDeeds = 1
    Retain = 3
    StdinRoom = 1
    StdoutRoom = 1
    Conduct <- AnyConduct
INVARIANT TypeOK
INVARIANT LateAnswersTolerated
INVARIANT NobodyForgotten
CHECK_DEADLOCK FALSE
PROPERTY ExitIsTold
