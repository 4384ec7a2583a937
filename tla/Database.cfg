SPECIFICATION FairSpec
CONSTANTS
    None = None
    gpgKey = gpgKey
    Servers = {s1, s2}
    Requests = {r1, r2}
    Tables = {gpgKey}
    IndexNames = {FullFingerPrint}
    IndexesOf <- MCIndexesOf
    Keys = {k}
    Names = {admin}
    Passwords = {default, other}
    Admin = admin
    DefaultPassword = default
    MaxRetryCount = 2
    MaxFaults = 2
INVARIANTS
    ServesReady
    RowsBounded
PROPERTIES
    KeysSettle
    UsersSettle
    KeepsPromise
    AllComeUp
