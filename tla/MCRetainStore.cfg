SPECIFICATION Spec
CONSTANTS
    Subjects = {s1, s2}
    Nil = Nil
    MaxWrites = 3
    MaxErrors = 2
    MaxCrashes = 1
INVARIANTS
    TypeOK
    NothingForgotten
    CloseKeepsValues
PROPERTIES
    EventuallyDurable
    ImplementsLastValues
