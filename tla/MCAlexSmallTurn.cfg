CONSTANTS
    COUNTS_PER_REV = 2
    WHEEL_CIRC = 1
    TurnRate = 1978
    Indefinite = 50
    Byte = 256
    Distances = {0, 1, 2}
    Angles = {0, 1}
    Powers = {TRUE}
    MaxCommands = 1
    MaxMoved = 3
    MaxOther = 1
SPECIFICATION FairSpec
PROPERTY TurnEnds
