SPECIFICATION Spec
CONSTANTS
    None = None
    Missing = Missing
    Cut = Cut
    Requests = {r1, r2}
    Admin = admin
    Users = {admin, other}
    Default = default
    Passwords = {default, changed}
    Tokens = {t1, t2}
    AgentTokenExpiration = 2
    Lifetimes = {0}
    MaxTime = 1
    MaxFaults = 2
INVARIANTS SavedStays FileIsCurrent ActsForOwner
SYMMETRY MCSymmetry
