\* Fair scheduling, one restart at any point, all statuses.
SPECIFICATION FairSpec
CONSTANTS
    Upstreams = {u1}
    Keys = {k1}
    Reported = {"available", "unavailable", "unknown", "error"}
    Runs = {r1}
    Requests = {q1}
    MaxTime = 1
    MaxRestarts = 1
    StoreFails = {}
PROPERTIES
    GuardReleased
    RunEnds
    FirstPollHappens
    DisagreementRepaired
