\* Two operators who may close their connections.
CONSTANTS
    Trusted = {c1, c2}
    Refused = {}
    Letters = {"f"}
    Numbers = {3}
    Half = 2
    Sent = 3
    Backlog = 2
    MaxTyped = 2
    NULL = NULL
SPECIFICATION FairSpec
PROPERTY ClosedWorkerEnds
CHECK_DEADLOCK FALSE
