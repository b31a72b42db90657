SPECIFICATION SettingsSpec
CONSTANTS
    Records <- MCRecords
    Torn = Torn
    None = None
    Seals = {TRUE}
    MaxGeneration = 4
    Autolocks = {0, 60}
    Limits = {3, 5}
    DefaultAutolock = 60
    DefaultLimit = 5
    TotpCapacity = 1
PROPERTIES
    RecoversLatest
CHECK_DEADLOCK FALSE
