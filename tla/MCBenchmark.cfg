SPECIFICATION Spec
CONSTANTS
    Device = veth1
    OtherDevice = eth0
    MaxArrivals = 5
    Functions <- BenchmarkFunctions
    Methods <- BenchmarkMethods
CHECK_DEADLOCK FALSE
INVARIANTS
    MetricsCollected
    StopsWithinATurn
PROPERTY
    BenchmarkFinishes
