SPECIFICATION Spec
CONSTANTS
    one = one  two = two  l1 = l1  l2 = l2  l3 = l3
    Events = {one, two}
    Listeners = {l1, l2, l3}
    EventOf <- MCEventOf
    Ids = 4
    MaxDepth = 1
    DestroysPending = TRUE
PROPERTIES RemovalFindsListener
