SPECIFICATION Spec
CONSTANTS
    Accounts = {a1, a2}
    CallKeys = {k1, k2}
    NoKey = NoKey
    None = None
    Envelope = Envelope
    Groups = {g1, g2}
    Entries = {e1, e2}
    Self = Self
SYMMETRY Symmetry
INVARIANTS
    TypeOK
    SecretIsLatest
    MaskTellsCallKey
    RequestsCarryTheCredential
    StatusIsCallResult
    AvailabilityReported
