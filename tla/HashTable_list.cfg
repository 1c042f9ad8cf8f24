SPECIFICATION Spec
CONSTANTS
    k1 = k1
    k2 = k2
    k3 = k3
    Cell = {c1, c2, c3}
    Key = {k1, k2, k3}
    Slot <- MCSlot
    Hash <- MCHash
    NULL = NULL
    Wild = Wild
    Junk <- AnyPointer
    Anchor = Anchor
    Thread = {t1, t2}
    Nobody = Nobody
    Shared = FALSE
    MaxInserts = 3
CHECK_DEADLOCK FALSE
SYMMETRY Symmetry
INVARIANTS TypeOK ChainsHold ListHolds SearchMissesNothing
PROPERTIES TableSpec
