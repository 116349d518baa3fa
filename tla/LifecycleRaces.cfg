\* One miniverse and two requests that overlap as they like.
CONSTANTS
    Miniverses = {m1}
    Workers = {w1, w2}
    Boot = Boot
    ContainerIds = {c1, c2, c3, c4}
    None = None
    Serial = FALSE
    MaxFaults = 1
SPECIFICATION Spec
SYMMETRY Symmetry
INVARIANTS LoopOwned ControllerCovers
\* the miniverse may have been deleted
CHECK_DEADLOCK FALSE
