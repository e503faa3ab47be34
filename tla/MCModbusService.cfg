SPECIFICATION Spec
CONSTANTS
    c1 = c1
    c2 = c2
    p1 = p1
    p2 = p2
    e1 = e1
    e2 = e2
    Nil = Nil
    Disabled = Disabled
    Connections = {c1, c2}
    Points = {p1, p2}
    Endpoints = {e1, e2}
    Readings = {0, 1}
    Devices <- Different
    WorkerIds = {1, 2}
    ClientIds = {1, 2, 3, 4}
    Initials <- MainInitials
    Choices <- MainChoices
    Mistyped = Mistyped
    Skews = {0, 1, 2}
    Rank <- MCRank
    MaxOps = 2
    MaxFailures = 1
INVARIANTS
    TypeOK OnePoller WorkersFollowDefinitions NothingRunsAfterStop CacheMatchesBus NewestUnlessOvertaken
PROPERTIES
    ReconciliationEnds ValuesArrive
ACTION_CONSTRAINT Scope
CHECK_DEADLOCK FALSE
