SPECIFICATION FairSpec
CONSTANTS
    None = None
    k1 = k1
    k2 = k2
    k3 = k3
    s1 = s1
    Callers = {c1, c2}
    Keys = {k1, k2, k3}
    Fps = {k1, k2, k3, s1}
    SubkeysOf <- MCSubkeysOf
    MaxKeyRingCache = 2
INVARIANTS
    QueuedOnce
    NothingLeaks
    ListingComplete
    MemoryBounded
PROPERTIES
    OldestFirst
    KeepsPromise
    CallersReturn
