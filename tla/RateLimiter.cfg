SPECIFICATION FairSpec
CONSTANTS
    Channels = {c1, c2, c3}
    MaxSlots = 2
    Window = 3
    MaxAttempts = 2
    TickModulus = 8
INVARIANTS
    TypeOK
    SlidingBound
    RetryHonest
PROPERTY RefusalEnds
