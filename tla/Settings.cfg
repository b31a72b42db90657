SPECIFICATION SettingsSpec
CONSTANTS
    Records <- MCRecords
    Torn = Torn
    None = None
    Seals = {TRUE, FALSE}
    MaxGeneration = 4
    Autolocks = {0, 60}
    Limits = {3, 5}
    DefaultAutolock = 60
    DefaultLimit = 5
    TotpCapacity = 1
INVARIANTS
    SettingsTypeOK
    DistinctGenerations
PROPERTIES
    ImplementsRegister
    LoadsOnlySaved
    BootEnds
CHECK_DEADLOCK FALSE
