SPECIFICATION Spec
CONSTANTS
    Nil = Nil
    Garbage = Garbage
    Mistyped = Mistyped
    plant = plant
    line = line
    pump = pump
    motor = motor
    Alarm = Alarm
    Warning = Warning
    Alerts = {pump}
    PropertyNames = {Alarm, Warning}
    Order <- InAnyOrder
    InitialConfig <- Levels
    InitialProperty <- Classes
    InitialState <- Quiet
    InitialInput <- Low
    ConfigChoices <- Nobody
    PropertyChoices <- NoClasses
    InputChoices <- AnyLevel
    ForeignStates <- Nobody
    Acknowledgers = {}
    Unreliable = {}
    Registered = {}
    MaxOps = 3
    MaxFailures = 0
    MaxCrashes = 0
PROPERTY EpisodeContinues
CHECK_DEADLOCK FALSE
