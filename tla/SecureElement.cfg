SPECIFICATION Spec
CONSTANTS
    Empty = Empty
    Bound = Bound
    Keys = {k1, k2}
    SecretLengths = {8, 16, 32}
    Versions = {0, 1, 2}
    Passwords = {12, 60}
    None = None
    MaxAad = 2
    Rps = {rp1, rp2}
    NoRp = NoRp
    MaxCount = 2
SYMMETRY Symmetry
INVARIANTS
    SecureElementTypeOK
    OpensWhatItSealed
    CountsRise
PROPERTIES
    NoRollback
