SPECIFICATION Spec
CONSTANTS
    i1 = i1
    i2 = i2
    Items = {i1, i2}
    Existing = {i1, i2}
    Requests = {r1, r2}
    DocIds = {d1, d2, d3}
    LineLists <- MCLineLists
    Ops = {"sale", "purchase"}
    NoObject = noObject
    NoDoc = noDoc
    MaxRows = 3
INVARIANTS
    EveryRowChains
