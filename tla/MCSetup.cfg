SPECIFICATION SetupSpec
CONSTANTS
    Functions = {"AFPPacketProcessUsingRingBufferNoPolling", "AFPPacketProcessUsingRingBufferPolling", "AFPPacketProcessPoll", "AFPCreateSocket"}
    Device = Device
    OtherDevice = OtherDevice
    MaxArrivals = 3
INVARIANT CreatedRingIsClean
INVARIANT BoundWhenStarted
PROPERTY KeepsBoundFrames
CHECK_DEADLOCK FALSE
