\* Two miniverses, up to three faults, one request after the other.
CONSTANTS
    Miniverses = {m1, m2}
    Workers = {w1}
    Boot = Boot
    ContainerIds = {c1, c2}
    None = None
    Serial = TRUE
    MaxFaults = 3
SPECIFICATION Spec
SYMMETRY Symmetry
INVARIANTS TypeOK Recorded Settled
PROPERTY KeepsPromise
\* the miniverse may have been deleted
CHECK_DEADLOCK FALSE
