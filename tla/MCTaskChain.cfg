SPECIFICATION ChainFairSpec
CONSTANTS
    w1 = w1  w2 = w2  c1 = c1  k1 = k1
    NoTask = NoTask  NoToken = NoToken
    Works = {w1, w2}
    Coros = {c1}
    CodeTasks = {w1}
    Tokens = {k1}
    TaskErrors = {"failed"}
    MaxAwaits = 2
INVARIANTS ErrorsTravel
PROPERTIES EveryTaskCompletes
CHECK_DEADLOCK FALSE
