SPECIFICATION Spec
CONSTANTS
    ByteBits = 4
    IntBytes = 2
    BundleMax = 106
    DictionaryMax = 24
    PayloadMax = 32
    Names <- MCNames
    Times <- MCTimes
    Numbers <- MCNumbers
    Payloads <- MCPayloads
    Fills = {0, 15}
    BufferSize = 74
    MaxBundles = 2
INVARIANTS ArrivesAsSent KeepsItsDigest CutInThePayload MarksAlwaysRight DecodingStaysInside
CHECK_DEADLOCK FALSE
