SPECIFICATION Spec
CONSTANTS
    Packets <- TcpPackets
    Counts = {1}
    StackValues = {0}
    Strays <- SomeStrays
    MaxPackets = 1
    Lengths = {1}
    MaxLabels = 1
INVARIANT PayloadIsBehindTheHeaders
CHECK_DEADLOCK FALSE
