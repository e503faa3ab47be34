SPECIFICATION Spec
CONSTANTS
    Nil = Nil
    Garbage = Garbage
    Mistyped = Mistyped
    tank = tank
    Alarm = Alarm
    Alerts = {tank}
    PropertyNames = {Alarm}
    Order <- MCOrder
    InitialConfig <- MCInitialConfig
    InitialProperty <- MCInitialProperty
    InitialState <- MCInitialState
    InitialInput <- MCInitialInput
    ConfigChoices <- MCConfigChoices
    PropertyChoices <- MCPropertyChoices
    InputChoices <- MCInputChoices
    ForeignStates <- MCForeignStates
    Acknowledgers <- MCAcknowledgers
    Unreliable = {tank}
    Registered = {}
    MaxOps = 3
    MaxFailures = 1
    MaxCrashes = 1
INVARIANTS
    TypeOK
    StatesValid
    NeverFrozen
    LeafFollowsInput
    BusConverges
PROPERTIES
    AckNeedsOperator
    ComesToRest
CHECK_DEADLOCK FALSE
