SPECIFICATION Spec
CONSTANTS
    Node = {"n1", "n2", "n3"}
    AppEid = {"send", "recv"}
    Nowhere = "none"
    Route <- Ring
    Hops <- RingHops
    Socket = {"s1", "r1"}
    Home <- MCHome
    Names <- MCNames
    Targets <- MCTargets
    Text = {"t"}
    SeqSpan = 4
    Widths = {2, 4}
    StaleWords <- StaleAtEnds
    Watched <- FirstTwo
    Faults = {"signal loss", "repeat"}
    Closers = {"r1"}
    MaxTime = 0
    MaxSends = 1
    MaxCrashes = 1
CHECK_DEADLOCK FALSE
INVARIANTS CustodyKept SignalsAreTrue
PROPERTIES CustodySpec OrphansStay
