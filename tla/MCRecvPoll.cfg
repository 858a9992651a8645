SPECIFICATION FairSpec
CONSTANTS
    RcvBuf = 2
    MaxArrivals = 5
INVARIANT RecvNeverBlocks
INVARIANT ReportAccounts
PROPERTY ImplementsQueue
PROPERTY ImplementsLoop
PROPERTY SignalEndsCapture
PROPERTY FramesProcessed
PROPERTY LinkFlapEndsCapture
CHECK_DEADLOCK FALSE
