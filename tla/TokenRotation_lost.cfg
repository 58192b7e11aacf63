\* The balance endpoint fails once after a rotation, no call key.
SPECIFICATION Spec
CONSTANTS
    Writers = {}
    CallKeys = {c1}
    NoKey = NoKey
    Faults = {"balance"}
    MaxTokens = 3
    MaxRestarts = 0
INVARIANTS
    RotatedTokenSaved
