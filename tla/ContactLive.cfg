SPECIFICATION FairSpec
CONSTANTS
    Reader = Reader
    Beater = Beater
    Loop = Loop
    Writers = {w1}
    Gos = {g1, g2}
    QueueCap = 6
    IsGuru = TRUE
    UpPackets <- ComeAndGo
    DownPackets <- ErrorDown
    ContactTTL = 0
    FirstBill = 0
    BillEvery = 1
    MaxTime = 0
    MaxOps = 2
PROPERTIES CallsTakeEffect
CHECK_DEADLOCK FALSE
