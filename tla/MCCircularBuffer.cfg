\* A size of 0, which is never accepted, one that always wraps and one with room.
CONSTANTS
    Sizes = {0, 1, 2}
    Chars = {"a", "b"}
    Byte = 2
SPECIFICATION Spec
INVARIANTS
    IndicesAgree
    InterruptsLostIffCaught
    AvailableIsData
PROPERTY IsFifo
