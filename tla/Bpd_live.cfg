SPECIFICATION FairSpec
CONSTANTS
    Addr = {a1}
    Eid <- MCEid
    Self = "self"
    NoEid = "none"
    Time = {1}
    SeqSpan = 4
    Widths = {4}
    Peers = {"peer"}
    ForwardTable <- MCTable
    NetIn <- NetPair
    AppAdmin = {FALSE}
    AppSends <- ToFar
    AppNames <- MCNames
    Careless = {}
    StaleWords = {0}
    WildHeads = {FALSE}
    ReplicaSlot <- Apart
    ListSlot <- Apart
    QueueCap = 1
    UsockCap = 1
    BindMax = 1
    MaxSends = 1
    MaxRecvs = 1
    MaxErrors = 0
PROPERTIES ScanEnds ReceiversReturn
