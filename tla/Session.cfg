SPECIFICATION Spec
CONSTANTS
    Ticks = {t1, t2}
    NoChallenge = NoChallenge
    Payloads = {1, 16, 17}
    ScratchSize = 32
    TagSize = 16
    MaxFrames = 2
INVARIANTS
    SessionTypeOK
    FramesCounted
    AnswersItsChallenge
PROPERTY SessionEnds
