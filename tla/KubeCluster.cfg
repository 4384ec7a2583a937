SPECIFICATION FairSpec
CONSTANTS
    None = None
    p1 = p1
    p2 = p2
    m = m
    old = old
    new = new
    wrong = wrong
    Pods <- MCPods
    Fps = {f}
    Lax = {}
    Passwords <- MCPasswords
    Locks <- MCLocks
    MasterKeys = {m, m2}
    Deployed <- MCDeployed
    MasterKey <- MCMasterKey
    MaxFaults = 1
INVARIANT OnlyPasswordsShared
PROPERTY Converges
