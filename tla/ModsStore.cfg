\* Two mods, one of which has nothing for the newer game; two requests, one failure.
CONSTANTS
    p1 = p1
    p2 = p2
    Projects = {p1, p2}
    Versions = {1, 2}
    Releases = {1}
    Games = {1, 2}
    Catalogues <- MCCatalogues
    ModIds = {i1, i2}
    NoMod = NoMod
    Requests = {r1, r2}
    MaxFaults = 1
SPECIFICATION Spec
SYMMETRY Symmetry
INVARIANTS TypeOK JarsMatchRows
PROPERTIES InstallDelivers ModsMoveAlong
\* the miniverse may have been deleted
CHECK_DEADLOCK FALSE
