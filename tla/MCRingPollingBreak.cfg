SPECIFICATION Spec
CONSTANTS
    NumFrames = 3
    Cpus = {c1, c2}
    NoCpu = NoCpu
    MaxArrivals = 4
PROPERTY NoMorePacketsReady
CHECK_DEADLOCK FALSE
