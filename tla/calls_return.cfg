CONSTANTS
    u1 = u1  u2 = u2  w1 = w1  common = common
    NoCall = NoCall
    Users = {u1, u2}
    Names = {"none", "m", "v"}
    InferWorkers = {w1}
    CommonWorker = common
    Script <- ServerPrograms
SPECIFICATION FairSpec
PROPERTY
    MethodsReturn
