SPECIFICATION Spec
CONSTANTS
    Reader = Reader
    Beater = Beater
    Loop = Loop
    Writers = {w1}
    Gos = {g1, g2, g3}
    QueueCap = 2
    IsGuru = FALSE
    UpPackets <- AllUp
    DownPackets <- PlainDown
    ContactTTL = 0
    FirstBill = 0
    BillEvery = 1
    MaxTime = 1
    MaxOps = 3
INVARIANTS TypeOK ListHoldsOpenContacts WaitersAccounted BilledOnce WireOrder
PROPERTIES ClosedIsFinal
CHECK_DEADLOCK FALSE
