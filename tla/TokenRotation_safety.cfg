\* A PUT handler beside the refresh, everything fails, one restart.
SPECIFICATION Spec
CONSTANTS
    Writers = {w1}
    CallKeys = {c1, c2}
    NoKey = NoKey
    Faults = {"balance", "refresh", "revoke", "store"}
    MaxTokens = 3
    MaxRestarts = 1
SYMMETRY Symmetry
INVARIANTS
    TypeOK
    MaskDescribesSecret
    OneLogin
