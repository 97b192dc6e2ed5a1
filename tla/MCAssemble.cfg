\* P = 5 leaves room for a packet cut across three reads; ReadMax = P also
\* covers a read that ends exactly on, and one that runs past, a packet's end.
CONSTANTS
    P = 5
    ReadMax = 5
    MaxFed = 20
SPECIFICATION Spec
INVARIANTS
    TypeOK
    EveryByteAccountedFor
PROPERTY CutsStream
\* The stream that is explored ends at MaxFed bytes.
CHECK_DEADLOCK FALSE
