SPECIFICATION Spec
CONSTANTS
    Nil = Nil
    Garbage = Garbage
    Mistyped = Mistyped
    plant = plant
    line = line
    pump = pump
    motor = motor
    Alarm = Alarm
    Alerts = {plant, line, pump, motor}
    PropertyNames = {Alarm}
    Order <- MCOrder
    InitialConfig <- MCInitialConfig
    InitialProperty <- MCInitialProperty
    InitialState <- MCInitialState
    InitialInput <- MCInitialInput
    ConfigChoices <- MCConfigChoices
    PropertyChoices <- MCPropertyChoices
    InputChoices <- MCInputChoices
    ForeignStates <- MCForeignStates
    Acknowledgers <- MCAcknowledgers
    Unreliable = {}
    Registered <- MCRegistered
    MaxOps = 3
    MaxFailures = 0
    MaxCrashes = 1
INVARIANTS
    SummariesAcyclic
    ParentsExact
    SummaryFollowsMembers
    SummaryCoversPending
ACTION_CONSTRAINT Repeated
CHECK_DEADLOCK FALSE
