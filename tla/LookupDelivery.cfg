SPECIFICATION Spec
CONSTANTS
    a1 = a1  a2 = a2  c1 = c1  c2 = c2  c3 = c3
    Clients = {c1, c2, c3}
    Aides = {a1, a2}
    Guru = g
    Topics = {t1}
    Home <- TwoAidesHome
    NoEntry = none
    OwnedTopics = {}
    SelfOption = {FALSE}
    StatsOption = {FALSE}
    Beats = {a1}
    SubTTL = 3  PubTTL = 2  BillTTL = 5
    InCap = 4  UpCap = 2  DownCap = 4
    MaxOps = 4
    MaxGen = 1
    MaxTime = 0
INVARIANTS TypeOK InOrder SettledDelivery
PROPERTIES StaysCovered
SYMMETRY Neighbours
CHECK_DEADLOCK FALSE
