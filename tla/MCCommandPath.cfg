SPECIFICATION CPSpec
CONSTANTS
    Half = 8
    Full = 6
    Pwm = 16
    Indefinite = 15
    Exact = 16
    float <- MCFloat
    Typed <- MCTyped
    Bases = {0, 3, 50}
INVARIANT CPTypeOK
PROPERTIES PowerIsTypedOrFull EndIsTyped NegativeIsNoShortDrive
