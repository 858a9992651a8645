SPECIFICATION SetupSpec
CONSTANTS
    Functions = {"AFPPacketProcessUsingRingBufferNoPolling", "AFPPacketProcessUsingRingBufferPolling"}
    Device = Device
    OtherDevice = OtherDevice
    MaxArrivals = 3
INVARIANT OnlyDeviceFrames
CHECK_DEADLOCK FALSE
