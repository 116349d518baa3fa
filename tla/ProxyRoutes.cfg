\* Two requests that overlap, two failures or kills of the API.
CONSTANTS
    Miniverses = {m1, m2}
    Subdomains = {s1, s2}
    NoOne = NoOne
    Requests = {r1, r2}
    MaxFaults = 2
SPECIFICATION Spec
INVARIANTS TypeOK RoutesCurrent
PROPERTIES OwnChangeRouted
