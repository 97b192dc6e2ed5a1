---------------------------- MODULE MCScanCache ----------------------------
EXTENDS ScanCache

\* Three revolutions: a long one, and two short ones.
MCStream == << [rev |-> 1, at |-> 1], [rev |-> 1, at |-> 2],
               [rev |-> 2, at |-> 1], [rev |-> 3, at |-> 1] >>
=============================================================================
