SPECIFICATION Spec
CONSTANTS
    ByteBits = 8
    IntBytes = 4
    PayloadMax = 40
    Keys <- MCKeys
    Moments <- MCMoments
    Sources <- MCSources
    Fills = {0, 37, 255}
INVARIANTS EncodesTheKey SignalsSucceed
PROPERTIES DeletesTheKey SourceArrives
