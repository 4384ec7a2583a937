SPECIFICATION FairServerSpec
CONSTANTS
    MaxPods = 2
    MaxSignals = 2
INVARIANT StopsInOrder
PROPERTY TakenSignalEnds
CHECK_DEADLOCK FALSE
