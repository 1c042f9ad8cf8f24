SPECIFICATION Spec
CONSTANTS
    Word <- WordsOfFile
    Hash = Hash
    Address <- Net
    INADDR_NONE = INADDR_NONE
    Zero = Zero
    Line <- Lines
    Scheme = Scheme
    One = One
    Two = Two
    Net1 = Net1
    Net2 = Net2
    FORWARD_TABLE_MAXSIZE = 4
    MaxLines = 7
CHECK_DEADLOCK FALSE
INVARIANTS
    PairsAsWritten
    NothingLeftOut
    ForwardsAsWritten
