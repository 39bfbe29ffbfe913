SPECIFICATION Spec
CONSTANTS
    Regions = {r1, r2}  Names = {n1, n2}  NoName = NoName  Cookies = 4
    Functions = {f1, f2, f3}  Targets = {x1, x2}  Garbage = garbage
    MaxInstances = 4  SwapsFunctors = FALSE
    gen = gen  io = io  fut = fut  sys = sys  Standard <- MCStandard
    Threads = {t1, t2}  Own = {c1, c2}  HresultCategory = hrc
    Facilities = 7  Codes = 2  FirstUseRaces = FALSE
    Null = Null  Generic = gen  CanceledCode = 1
    Objects = {o1, o2, o3}  Addresses = {a1, a2, a3}  NoAddress = NoAddress
    Elements = {e1, e2, e3}  Keys = 3  MaxLen = 4  MaxRange = 2  Comparator = "less"
    Places = {s1, s2}  Loops = {l1, l2}  Ids = {1, 2}  Calls = {k1, k2}
    Fds = {3, 4, 5, 6}  None = None  Pool = Pool  Careless = FALSE
    Modulus = 64  Data = {0, 1, 3, 62}  Numbers = {0, 1, 2, 5, 61, 62, 63}  MaxInput = 4
INVARIANTS
    IntervalsPair
    RegisteredWhileNeeded
    TargetsAreOwned
    OutcomeSurvives
    TicketsFindTheirTable
    HoldsItsElements
    RunsWhereAsked
    AgreeWithReference
CHECK_DEADLOCK FALSE
