SPECIFICATION Spec
CONSTANTS
    Origins = {siteA, siteB}
    Usernames = {alice, bob}
    Passwords = {pw1, pw2}
    VaultCapacity = 3
    IdLimit = 5
INVARIANTS
    TypeOK
    OneEntryPerAccount
PROPERTY ImplementsMap
