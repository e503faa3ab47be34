SPECIFICATION Spec
CONSTANTS
    Points = {1, 2, 3, 4}
    Tables <- MCTables
    BitTables = {"coil"}
    Choices <- MCChoices
    Orders <- MCOrders
    AddressSpace = 9
    RegisterLimit = 4
    BitLimit = 2
INVARIANTS
    TypeOK
    RequestsLegal
    EveryPointCovered
    ValuesDecoded
    FewestRequests
CHECK_DEADLOCK FALSE
