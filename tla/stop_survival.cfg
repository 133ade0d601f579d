SPECIFICATION Spec
CONSTANTS
    q1 = q1
    q2 = q2
    common = common
    infer = infer
    live = live
    ready = ready
    c1 = c1
    c2 = c2
    c3 = c3
    NoCall = NoCall
    CommonQueue = common
    ModelInfer = infer
    InferQueues = {q1}
    CommonRpcs <- OneCommon
    Calls = {c1}
    MethodOf <- InferOnce
    MaxRpcs = 4
INVARIANT
    SurvivesStop
