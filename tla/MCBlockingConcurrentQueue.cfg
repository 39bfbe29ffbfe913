SPECIFICATION Spec
CONSTANTS
    p1 = p1  c1 = c1  c2 = c2  k1 = k1  a = a  b = b  d = d
    NoThread = NoThread
    Producers = {p1}
    Consumers = {c1, c2}
    Controllers = {k1}
    Items = {a, b, d}
    MaxSize = 2
    Calls = {"blocking_drain", "try_pop"}
INVARIANTS Fifo NoStrandedItem
