SPECIFICATION Spec
CONSTANTS
    Nil = Nil
    Garbage = Garbage
    Mistyped = Mistyped
    plant = plant
    line = line
    pump = pump
    motor = motor
    Alarm = Alarm
    Warning = Warning
    Alerts = {line, pump, motor}
    PropertyNames = {Alarm}
    Order <- InAnyOrder
    InitialConfig <- Pair
    InitialProperty <- Classes
    InitialState <- Quiet
    InitialInput <- AllGood
    ConfigChoices <- Nobody
    PropertyChoices <- NoClasses
    InputChoices <- AnyBool
    ForeignStates <- Nobody
    Acknowledgers = {line, pump}
    Unreliable = {}
    Registered = {}
    MaxOps = 4
    MaxFailures = 0
    MaxCrashes = 0
PROPERTY AckNeedsOperator
CHECK_DEADLOCK FALSE
