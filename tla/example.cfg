SPECIFICATION FairExample
CONSTANTS
    c1 = c1  c2 = c2  c3 = c3
    Calls <- ThreeRuns
    NoCall = NoCall
    MaxObjects = 4
INVARIANTS
    OwnsItself
    OneListens
    AbortNeedsLostClient
PROPERTIES
    ClientsReturn
    ExampleServes
