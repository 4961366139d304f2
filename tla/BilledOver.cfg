SPECIFICATION Spec
CONSTANTS
    c1 = c1  c2 = c2  t1 = t1  t2 = t2  t3 = t3
    Slots = 4
    Span = 600
    Margin = 10
    Clients = {c1}
    Topics = {t1}
    NoAide = none
    Aides = 1
    Beat = 10
    FirstBill = 30
    BillEvery = 60
    MaxConnections = 1
    AideLimit = 3
    GuruLimit = 1
    Place <- LastTakes
    Buffers = {0}
    MaxNodes = 2
    AgeCap = 2700
    SteadyCap = 40
INVARIANT UnderMax
CHECK_DEADLOCK FALSE
