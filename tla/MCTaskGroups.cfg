SPECIFICATION FairSpec
CONSTANTS
    t1 = t1  t2 = t2  t3 = t3  k1 = k1  k2 = k2  e1 = e1  e2 = e2
    Group = Group  Completed = Completed  NoError = NoError
    Inputs <- MCInputs
    Others = {t3}
    Closers = {k1, k2}
    Errors = {e1, e2}
INVARIANTS LastCompletes TellsOutcome
PROPERTIES NoContinuationInside ScopeCompletes
CHECK_DEADLOCK FALSE
