\* Both classes of controller, refreshes that overlap; no symmetry: liveness.
CONSTANTS
    Players = {p1, p2}
    Tasks = {t1, t2}
    MaxChanges = 3
    MaxFaults = 2
SPECIFICATION FairSpec
INVARIANTS TypeOK ListCurrent NewsIsStored SeenComplete
PROPERTY CatchesUp
CHECK_DEADLOCK FALSE
