SPECIFICATION Spec
CONSTANTS
    None = None
    Unknown = Unknown
    Missing = Missing
    Cut = Cut
    Clients = {c1, c2, c3}
    Names = {n1}
    Datas = {d1, d2}
    Metas = {m1, m2}
    saveEnabled = TRUE
INVARIANTS
    AcknowledgedStays
    NothingPending
SYMMETRY MCSymmetry
