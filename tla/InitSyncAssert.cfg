\* No fault and no overlap on a miniverse is needed for the assertion to fail.
CONSTANTS
    Miniverses = {m1}
    Workers = {w1}
    Boot = Boot
    ContainerIds = {c1, c2}
    None = None
    Serial = TRUE
    MaxFaults = 0
SPECIFICATION SyncSpec
INVARIANT AssertControllerIsNotNone
CHECK_DEADLOCK FALSE
