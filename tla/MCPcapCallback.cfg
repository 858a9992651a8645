SPECIFICATION Spec
CONSTANTS
    Packets <- AllPackets
    Counts <- SomeCounts
    StackValues = {0, 20, 1000}
    Strays <- SomeStrays
    MaxPackets = 2
    Lengths = {1, 2, 3, 4}
    MaxLabels = 3
INVARIANT DecodedAsWhatItIs
INVARIANT FieldsAreTheHeaders
INVARIANT WritesInBounds
INVARIANT NameIsDotted
INVARIANT TypeAndClassRead
CHECK_DEADLOCK FALSE
