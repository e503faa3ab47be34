SPECIFICATION Spec
CONSTANTS
    c1 = c1
    c2 = c2
    p1 = p1
    p2 = p2
    e1 = e1
    e2 = e2
    Nil = Nil
    Disabled = Disabled
    Connections = {c1}
    Points = {p1}
    Endpoints = {e1, e2}
    Readings = {0, 1}
    Devices <- Different
    WorkerIds = {1, 2}
    ClientIds = {1, 2, 3}
    Initials <- OneInitials
    Choices <- RaceChoices
    Mistyped = Mistyped
    Skews = {0}
    Rank <- OneRank
    MaxOps = 2
    MaxFailures = 0
INVARIANT DefinitionsConverge
CHECK_DEADLOCK FALSE
