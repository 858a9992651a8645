SPECIFICATION FairSpec
CONSTANTS
    NumFrames = 3
    Cpus = {c1, c2}
    NoCpu = NoCpu
    MaxArrivals = 5
INVARIANT ThreadInv
INVARIANT ReportAccounts
PROPERTY ImplementsRing
PROPERTY EndsOnlyWhileFilling
PROPERTY ImplementsLoop
PROPERTY SignalEndsCapture
PROPERTY FramesProcessed
CHECK_DEADLOCK FALSE
