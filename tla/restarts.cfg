SPECIFICATION FairSystem
CONSTANTS
    q1 = q1
    common = common
    infer = infer
    live = live
    c1 = c1
    c2 = c2
    NoCall = NoCall
    CommonQueue = common
    ModelInfer = infer
    InferQueues = {q1}
    CommonRpcs <- OneCommon
    Calls = {c1, c2}
    MethodOf <- InferAndLive
    MaxRpcs = 6
    MaxSignals = 2
    CommandLines <- RestartLine
INVARIANTS
    SinceInv
    NothingOutlivesStop
    OwnShareExact
    NewServerIsSafe
    LeftoversAreFreed
PROPERTIES
    ProcessSpec
    RestartCompletes
CONSTRAINT TwoRounds
