SPECIFICATION Spec
CONSTANTS
    MaxFrame = 24
    MaxField = 2
    MaxNonce = 1
    LongMax = 1
    Symbols <- MCSymbols
    Numeral <- MCNumeral
    Texts <- MCTexts
    Lines <- MCLines
    BufferSizes = {20, 24}
    NoCommand = NoCommand
INVARIANT OversizedRejected
