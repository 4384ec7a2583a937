SPECIFICATION Spec
CONSTANTS
    None = None
    Lost = Lost
    Plain = Plain
    k = k
    s = s
    pA = pA
    pB = pB
    Threads = {t1, t2}
    Fps = {k, s}
    Passwords = {pA, pB}
    Files <- TwoLocks
    OnDemandKeyLoad = FALSE
    AgentKeyFingerPrint = k
SYMMETRY MCSymmetry
INVARIANTS
    MissingOnlyInTheGap
    SubkeysAreThere
    MasterIsLoaded
    OwnOrMasterKey
    PasswordChecked
    NobodyWaitsForItself
CHECK_DEADLOCK FALSE
