\* The balance endpoint fails now and then, access tokens expire.
SPECIFICATION FairSpec
CONSTANTS
    Writers = {}
    CallKeys = {c1}
    NoKey = NoKey
    Faults = {"balance"}
    MaxTokens = 6
    MaxRestarts = 0
INVARIANTS
    CallKeyProtectsRotation
PROPERTIES
    BalanceRecoversOnExpiry
