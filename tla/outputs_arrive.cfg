SPECIFICATION ReaderSpec
CONSTANTS
    IndexRange = 8
    SizeRange = 32
    ObjectSize = 8
    MaxBytes = 16
    MaxRank = 1
    MaxOutputs = 1
    Wire <- WireNames
    Responses <- ResponseLists
INVARIANT
    OutputsArrive
