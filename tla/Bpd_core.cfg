SPECIFICATION Spec
CONSTANTS
    Addr = {a1}
    Eid <- MCEid
    Self = "self"
    NoEid = "none"
    Time = {1}
    SeqSpan = 4
    Widths = {2, 4}
    Peers = {"peer"}
    ForwardTable <- MCTable
    NetIn <- NetMixed
    AppAdmin = {FALSE, TRUE}
    AppSends <- ToSelfOrFar
    AppNames <- MCNames
    Careless = {a1}
    StaleWords = {0, 2}
    WildHeads = {FALSE, TRUE}
    ReplicaSlot <- ByRoute
    ListSlot <- BySeq
    QueueCap = 1
    UsockCap = 1
    BindMax = 1
    MaxSends = 1
    MaxRecvs = 2
    MaxErrors = 1
INVARIANTS TypeOK SeqNumbersDistinct ReplicaOnce ScanEntryLive CustodyAccounted SignalsNeverLockScan SignalsMatchCustody
CHECK_DEADLOCK FALSE
