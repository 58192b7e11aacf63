\* Two items; every statement may fail but the two that store a result; a status is
\* error or another.
SPECIFICATION Spec
CONSTANTS
    Upstreams = {u1}
    Keys = {k1, k2}
    Reported = {"available", "error"}
    Runs = {r1}
    Requests = {q1}
    MaxTime = 2
    MaxRestarts = 0
    StoreFails = {"ListEnabledUpstreams", "GetUpstream", "UpdateUpstreamSecret", "check_logs"}
SYMMETRY Symmetry
INVARIANTS
    QuietUpstreamsAgree
PROPERTIES
    ImplementsContract
