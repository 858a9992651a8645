SPECIFICATION FairSpec
CONSTANTS
    NumFrames = 3
    Cpus = {c1, c2}
    NoCpu = NoCpu
    MaxArrivals = 7
INVARIANT RingInv
INVARIANT FifoExactlyOnce
INVARIANT FrameStableInUse
INVARIANT NoFrameLeaked
PROPERTY LostOnlyWhenFull
PROPERTY ImplementsQueue
PROPERTY ImplementsRing
PROPERTY SignalEndsCapture
PROPERTY FramesProcessed
CHECK_DEADLOCK FALSE
