SPECIFICATION Spec
CONSTANTS
    Calls = {c1, c2}
    Pool = 2
    k = k
    s = s
    g = g
    pA = pA
    pB = pB
    Passwords = {pA, pB}
    Plain = Plain
    None = None
    Virtual = Virtual
    Public = Public
    Fps <- MCFps
    Files <- MCFiles
    Requests <- MCRequests
INVARIANT ReturnedKeyEncrypted
CHECK_DEADLOCK FALSE
