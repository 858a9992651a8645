SPECIFICATION Spec
CONSTANTS
    NumFrames = 3
    Cpus = {c1}
    NoCpu = NoCpu
    MaxArrivals = 4
PROPERTY PollErrorSkipped
CHECK_DEADLOCK FALSE
