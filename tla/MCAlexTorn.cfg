CONSTANTS
    COUNTS_PER_REV = 2
    WHEEL_CIRC = 1
    TurnRate = 1978
    Indefinite = 50
    Byte = 4
    Distances = {6}
    Angles = {}
    Powers = {TRUE}
    MaxCommands = 1
    MaxMoved = 14
    MaxOther = 1
SPECIFICATION Spec
PROPERTY StopsNotEarly
