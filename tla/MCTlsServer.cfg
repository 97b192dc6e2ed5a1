\* Two operators and a client that is refused, whenever it lets the listener know,
\* over a queue of two connections.  Half = 2 makes 3 a number of two halves, of
\* which the power's upper one is not sent.
CONSTANTS
    Trusted = {c1, c2}
    Refused = {c3}
    Letters = {"f", "c"}
    Numbers = {3}
    Half = 2
    Sent = 3
    Backlog = 2
    MaxTyped = 2
    NULL = NULL
SPECIFICATION FairSpec
INVARIANTS
    TypeOK
    CommandsInOrder
    AtMostOneLate
PROPERTIES
    EveryCommandIsSent
    ClientsAreServed
CHECK_DEADLOCK FALSE
