SPECIFICATION Spec
CONSTANTS
    Addr = {a1}
    Eid <- MCEid
    Self = "self"
    NoEid = "none"
    Time = {1}
    SeqSpan = 4
    Widths = {2, 4}
    Peers = {"peer"}
    ForwardTable <- MCTable
    NetIn <- NetMixed
    AppAdmin = {FALSE}
    AppSends <- ToSelfOrFar
    AppNames <- MCNames
    Careless = {}
    StaleWords = {0}
    WildHeads = {FALSE}
    ReplicaSlot <- ByRoute
    ListSlot <- BySeq
    QueueCap = 1
    UsockCap = 1
    BindMax = 1
    MaxSends = 1
    MaxRecvs = 2
    MaxErrors = 0
INVARIANT DecodesWhatWasEncoded
CHECK_DEADLOCK FALSE
