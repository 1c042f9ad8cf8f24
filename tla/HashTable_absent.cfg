SPECIFICATION Spec
CONSTANTS
    k1 = k1
    k2 = k2
    k3 = k3
    Cell = {c1, c2, c3}
    Key = {k1, k2, k3}
    Slot <- MCSlot
    Hash <- MCHash
    NULL = NULL
    Wild = Wild
    Junk <- Cleared
    Anchor = Anchor
    Thread = {t1}
    Nobody = Nobody
    Shared = FALSE
    MaxInserts = 2
CHECK_DEADLOCK FALSE
INVARIANTS AbsentKeyIsNull
