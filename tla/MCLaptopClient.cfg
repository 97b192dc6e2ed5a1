\* Two commands, so that the writer can find the flag cleared after one that it
\* set again; two records of the server.
CONSTANTS
    MaxTyped = 2
    MaxHeard = 2
SPECIFICATION FairSpec
INVARIANTS
    TypeOK
    LiveWhileRunning
    EndsForAReason
    RecordsAreHandled
PROPERTY EndsWhenItShould
CHECK_DEADLOCK FALSE
