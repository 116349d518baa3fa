\* Liveness of the start of the API after up to three faults; no symmetry.
CONSTANTS
    Miniverses = {m1}
    Workers = {w1}
    Boot = Boot
    ContainerIds = {c1, c2}
    None = None
    Serial = TRUE
    MaxFaults = 3
SPECIFICATION FairSpec
PROPERTIES BootComesThrough BootRestores
\* the miniverse may have been deleted
CHECK_DEADLOCK FALSE
