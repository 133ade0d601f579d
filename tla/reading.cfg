SPECIFICATION FairReader
CONSTANTS
    IndexRange = 8
    SizeRange = 32
    ObjectSize = 8
    MaxBytes = 16
    MaxRank = 2
    MaxOutputs = 2
    Wire <- WireNames
    Responses <- ResponseLists
INVARIANTS
    RoomExact
    WritesInBounds
    ForwardedAlike
PROPERTY
    ReadEnds
