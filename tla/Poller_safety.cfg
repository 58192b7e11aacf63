\* One upstream, two runs of RefreshAll, one handler, a store that may fail at
\* every statement.
SPECIFICATION Spec
CONSTANTS
    Upstreams = {u1}
    Keys = {k1}
    Reported = {"available", "error"}
    Runs = {r1, r2}
    Requests = {q1}
    MaxTime = 2
    MaxRestarts = 1
    StoreFails = {"ListEnabledUpstreams", "GetUpstream", "UpdateUpstreamSecret",
                  "check_logs", "SetUpstreamPollResult", "RecordUpstreamCheckFailure"}
SYMMETRY Symmetry
INVARIANTS
    TypeOK
    OneRefreshPerUpstream
    GuardHasHolder
    OneRunAtATime
    CompletedRunCoversUpstreams
    NoOrphanItems
PROPERTIES
    PolledAtNeverGoesBack
