SPECIFICATION FairSpec
CONSTANTS
    t1 = t1  t2 = t2  c1 = c1  c2 = c2
    NoTask = NoTask  NoActor = NoActor
    Threads = {t1}
    Sources = {1, 2}
    Conts = {c1, c2}
    MaxClaims = 2
    Reentrant = FALSE
INVARIANTS RunsOnce ObservesWinner
PROPERTIES KeepsPromise
CHECK_DEADLOCK FALSE
