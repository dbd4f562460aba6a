SPECIFICATION MCSpec
CONSTANTS
    v1 = v1  v2 = v2  o1 = o1  o2 = o2
    Objects = {o1, o2}
    FieldVals = {pending, running, hidden}
    Indexed = {pending, running}
    Views = {v1, v2}
    MaxTx = 1
    MaxWrites = 2
    None = None
    NotWritten = NotWritten
    True = True
SYMMETRY Symmetry
INVARIANTS
     IncludesFollowed VariablesExpand MacrosExpand NamesAreUnambiguous
    JsonReadBack GraphsSorted IndexExact
CHECK_DEADLOCK FALSE
