SPECIFICATION FairSpec
CONSTANTS
    Node = {"n2", "n3"}
    AppEid = {"send2", "recv"}
    Nowhere = "none"
    Route <- Chain
    Hops <- ChainHops
    Socket = {"s2", "r1"}
    Home <- MCHome
    Names <- MCNames
    Targets <- MCTargets
    Text = {"t"}
    SeqSpan = 4
    Widths = {2, 4}
    StaleWords <- StaleAtEnds
    Watched <- FirstTwo
    Faults = {"bundle loss"}
    Closers = {}
    MaxTime = 1
    MaxSends = 2
    MaxCrashes = 0
CHECK_DEADLOCK FALSE
INVARIANTS TypeOK CustodyKept OnceIfBoundFirst
PROPERTIES WaitingReceives CustodyEnds
