SPECIFICATION MediatorSpec
CONSTANTS
    one = one  two = two  l1 = l1  l2 = l2  l3 = l3
    Events = {one, two}
    Listeners = {l1, l2, l3}
    EventOf <- MCEventOf
    Ids = 4
    MaxDepth = 3
    DestroysPending = FALSE
    MaxSends = 2
INVARIANTS HeardByAudience TicketsFindListeners SendsInOrder
PROPERTIES IterationStable RemovedIsSilent EverySendFires
