SPECIFICATION FairSpec
CONSTANTS
    o1 = o1  o2 = o2   s1 = s1  s2 = s2
    driver = driver
    Observers = {o1, o2}
    States = {s1, s2}
    Cancellable = {o1, driver}
    MaxEntries = 2
INVARIANTS OneCompleter MapHoldsOpen ExclusiveUntilCancelled
PROPERTIES MoveCompletes
CHECK_DEADLOCK FALSE
