SPECIFICATION Spec
CONSTANTS
    Frames <- MCFrames
    SlotSpace = 138
    MaxFrames = 2
INVARIANT CountersAgree
INVARIANT SegmentIsDumped
INVARIANT DumpInSlot
INVARIANT TextMatchesHex
INVARIANT EveryByteOnce
CHECK_DEADLOCK FALSE
