SPECIFICATION FairSpec
CONSTANTS
    p1 = p1  p2 = p2  a = a  b = b  d = d
    worker = worker  owner = owner  wake = wake
    NoThread = NoThread  NoListener = NoListener
    Clients = {p1, p2}
    Items = {a, b, d}
    MaxSize = 4
INVARIANTS NothingLost NothingLeaks
PROPERTIES QuietAfterCancel EverythingRuns NotifiedWorkerStops
CHECK_DEADLOCK FALSE
