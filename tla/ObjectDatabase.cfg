SPECIFICATION MCSpec
CONSTANTS
    v1 = v1  v2 = v2  k1 = k1  k2 = k2  x1 = x1  x2 = x2
    Views = {v1, v2}
    Keys = {k1, k2}
    Vals = {x1, x2}
    MaxTx = 2
    None = None
    NotWritten = NotWritten
    NotParsed = NotParsed
    NoTail = NoTail
SYMMETRY Symmetry
INVARIANTS LookupsDefined RefsCounted
PROPERTY ImplementsSnapshotStore
CHECK_DEADLOCK FALSE
