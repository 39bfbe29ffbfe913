SPECIFICATION FairSpec
CONSTANTS
    t1 = t1  t2 = t2  t3 = t3
    l1 = l1  l2 = l2  l3 = l3
    NoListener = NoListener
    Threads = {t1, t2, t3}
    Listeners = {l1, l2, l3}
INVARIANTS
    AtMostOnce
    NoMissedListener
    ReverseOrder
PROPERTIES
    RemovedIsSilent
    CancelReachesAll
    ImplementsSignal
