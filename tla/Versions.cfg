\* Every pair of versions of every format.
CONSTANTS
    Mains <- MCMains
    Numbers = {1, 2}
    Weeks <- MCWeeks
    Dates = {0, 1, 2}
SPECIFICATION VersionsSpec
INVARIANTS NeverInverted AcceptedMovesForward
\* one comparison, then the machine stops
CHECK_DEADLOCK FALSE
