\* Packets of 5 bytes over rings of 2, so that both fill up; the fourth packet
\* starts after any loss.
CONSTANTS
    P = 5
    Magic = 1
    Pad = 1
    RxSize = 2
    TxSize = 2
    MaxPackets = 4
SPECIFICATION FairSpec
INVARIANTS
    TypeOK
    InOrderUntilLoss
    PacedLosesNothing
    LossesPerAnswer
PROPERTIES
    NeverResynchronises
    AnsweredOrSleptOn
CHECK_DEADLOCK FALSE
