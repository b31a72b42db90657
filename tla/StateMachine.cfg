SPECIFICATION FairGateSpec
CONSTANTS
    Pins = {p1, p2}
    MalformedPins = {short}
    NoVerifier = NoVerifier
    Origins = {"siteA", "siteB"}
    Records <- MCRecords
    SettingsInputs <- MCSettings
    PinLimits = {3, 5, 10}
    DefaultPinLimit = 5
    AutolockDefault = 3
    LockoutBase = 3
    LockoutStep = 2
    WipeThreshold = 10
    Production = TRUE
    MaxFailures = 12
INVARIANTS
    TypeOK
    SessionConsistent
    SessionClean
    WipeNotMissed
    DelayAccounted
    HaltsOnlyUnprovisioned
PROPERTIES
    ImplementsGate
    LockoutEnds
    IdleDeviceLocks
    ServesDelay
