SPECIFICATION VaultSpec
CONSTANTS
    Goroutines = {c1, c2, c3}
    TTL = 9
    Margin = 8
    Second = 2
    MaxLogin = 2
    MaxSend = 2
    MaxTime = 16
INVARIANT NeverExpired
