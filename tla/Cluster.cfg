SPECIFICATION FairSpec
CONSTANTS
    c1 = c1  c2 = c2  t1 = t1  t2 = t2  t3 = t3
    Slots = 3
    Span = 12
    Margin = 25
    Clients = {c1}
    Topics = {t1, t2, t3}
    NoAide = none
    Aides = 1
    Beat = 1
    FirstBill = 2
    BillEvery = 4
    MaxConnections = 1
    AideLimit = 2
    GuruLimit = 1
    Place <- LastTakes
    Buffers = {0}
    MaxNodes = 3
    AgeCap = 44
    SteadyCap = 40
INVARIANTS TypeOK GurusAgree AveragesSettle
PROPERTIES LeftAlone
CHECK_DEADLOCK FALSE
