SPECIFICATION Spec
CONSTANTS
    Configs <- MCConfigs
    Editions = 1
    Machines = {1, 2, 3, 4, 5, 7, 8, 9}
    Home <- MCHome
    Site <- MCSite
    Enrolled = {1, 2, 4, 5, 7, 8}
    Changes = 1
    Secrets = {"s1", "dfir", "bd", "cb"}
    Fixtures <- MCFixtures
    Rows = 1
    NoName = NoName
INVARIANTS
    TypeOK
    Accounted
    InventoryComplete
    OnlyOwnMachines
    OutagesAreTolerated
PROPERTIES
    CollectionEnds
CHECK_DEADLOCK FALSE
