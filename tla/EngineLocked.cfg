SPECIFICATION EngineSpec
CONSTANTS
    Pins = {p1}
    MalformedPins = {bad}
    NoVerifier = NoVerifier
    Origins = {"none", "site", "other"}
    NoOrigin = "none"
    TrustedOrigins = {"site", "other"}
    Usernames = {"", "longname1", "longname2"}
    NoUsername = ""
    RejectedUsernames = {}
    Truncate <- MCTruncate
    Passwords = {"", "strong", "common", "short", "generated"}
    NoPassword = ""
    RejectedPasswords = {}
    ShortPasswords = {"", "short"}
    CommonPasswords = {"common"}
    Generated <- MCGenerated
    VaultCapacity = 2
    IdLimit = 9
    MaxSlots = 1
    Window = 1
    MaxAttempts = 1
    TickModulus = 2
    DefaultPin = p1
    Commands <- MCCommands
    Logins <- MCLogins
    Outcomes = {TRUE}
    MaxId = 3
    Records = {}
    SettingsInputs <- MCSettings
    PinLimits = {1}
    DefaultPinLimit = 1
    AutolockDefault = 1
    LockoutBase = 1
    LockoutStep = 1
    WipeThreshold = 2
    Production = FALSE
    MaxFailures = 2
PROPERTY OutputOnlyUnlocked
