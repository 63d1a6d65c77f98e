SPECIFICATION FairSpec
CONSTANTS
    Callers = {c1}
    Acceptors = {a1}
    Loop = loop
    QueueCap = 1
    MaxCapsules = 1
PROPERTY CloseErrFinalAtDone
CHECK_DEADLOCK FALSE
