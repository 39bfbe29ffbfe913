SPECIFICATION FairSpec
CONSTANTS
    p1 = p1  p2 = p2  a = a  b = b  d = d
    worker = worker  owner = owner  wake = wake
    NoThread = NoThread  NoListener = NoListener
    Clients = {p1}
    Items = {a}
    MaxSize = 4
PROPERTIES CancelCompletes
CHECK_DEADLOCK FALSE
