SPECIFICATION Spec
CONSTANTS
    None = None
    k1 = k1
    k2 = k2
    k3 = k3
    s1 = s1
    Callers = {c1, c2}
    Keys = {k1, k2}
    Fps = {k1, k2, s1}
    SubkeysOf <- MCSubkeysOf
    MaxKeyRingCache = 0
INVARIANT MemoryBounded
SYMMETRY MCSymmetry
CHECK_DEADLOCK FALSE
