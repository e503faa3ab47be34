SPECIFICATION Spec
CONSTANTS
    Nil = Nil
    Garbage = Garbage
    Mistyped = Mistyped
    plant = plant
    line = line
    pump = pump
    motor = motor
    Alarm = Alarm
    Warning = Warning
    Alerts = {plant, line, pump}
    PropertyNames = {Alarm}
    Order <- PlantFirst
    InitialConfig <- Diamond
    InitialProperty <- Classes
    InitialState <- Quiet
    InitialInput <- AllGood
    ConfigChoices <- Nobody
    PropertyChoices <- NoClasses
    InputChoices <- AnyBool
    ForeignStates <- Nobody
    Acknowledgers = {}
    Unreliable = {}
    Registered = {}
    MaxOps = 2
    MaxFailures = 0
    MaxCrashes = 0
INVARIANT SummaryFollowsMembers
CHECK_DEADLOCK FALSE
