SPECIFICATION FairSpec
CONSTANTS
    a1 = a1  a2 = a2  c1 = c1  c2 = c2  c3 = c3
    Clients = {c1}
    Aides = {a1}
    Guru = g
    Topics = {t1}
    Home <- AloneHome
    NoEntry = none
    OwnedTopics = {t1}
    SelfOption = {FALSE}
    StatsOption = {TRUE, FALSE}
    Beats = {a1, g}
    SubTTL = 1  PubTTL = 0  BillTTL = 2
    InCap = 2  UpCap = 3  DownCap = 2
    MaxOps = 2
    MaxGen = 2
    MaxTime = 1
PROPERTIES StaysCovered Reconnects SubscribeAnswered GoneForgotten
CHECK_DEADLOCK FALSE
