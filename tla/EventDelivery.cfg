\* One user, two handlers that overlap, a lost commit.
CONSTANTS
    Users = {u1}
    Handlers = {h1, h2}
    Ranks = {0, 1, 3}
    MaxQueue = 2
    MaxFaults = 1
SPECIFICATION Spec
SYMMETRY Symmetry
INVARIANTS TypeOK 
PROPERTIES NewsStaysInside NewsArrives
