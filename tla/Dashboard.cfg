SPECIFICATION Spec
CONSTANTS
    Upstreams = {u1}
    MaxClicks = 2
    MaxAttempts = 2
    MaxTime = 1
INVARIANTS
    TypeOK
    NoStuckSpinner
    OneLivePoller
PROPERTIES
    OldRunsAreSilent
    SpinnersStop
    DisplayCatchesUp
