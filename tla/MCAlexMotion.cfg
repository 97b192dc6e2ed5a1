CONSTANTS
    COUNTS_PER_REV = 2
    WHEEL_CIRC = 1
    TurnRate = 1978
    Indefinite = 50
    Byte = 256
    Distances = {0, 1, 2}
    Angles = {0, 1, 5}
    Powers = {TRUE, FALSE}
    MaxCommands = 2
    MaxMoved = 6
    MaxOther = 1
SPECIFICATION FairSpec
INVARIANTS
    TypeOK
    TargetIsCommanded
PROPERTIES
    StopsNotEarly
    MotionEnds
