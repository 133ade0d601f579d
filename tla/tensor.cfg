SPECIFICATION FairSpec
CONSTANTS
    IntRange = 8
    IndexRange = 8
    SizeRange = 32
    MaxElements = 6
    MaxRank = 2
    MaxTensors = 2
    Inputs <- InputLists
INVARIANTS
    SizeExact
    ReadsInBounds
    CopiesAll
    MessageMatchesShape
PROPERTY
    Converts
