SPECIFICATION Spec
CONSTANTS
    Pid = {101, 102}
    Endpoint = {e1, e2}
    Radix = 10
    MaxRuns = 3
    MaxSockets = 1
    MaxCalls = 4
    QueueCap = 1
    None = None
    MaxStarts = 1
CHECK_DEADLOCK FALSE
SYMMETRY Endpoints
INVARIANTS
    SourceIsOwn
    ReachesWhoAsked
