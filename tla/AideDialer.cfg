SPECIFICATION FairSpec
CONSTANTS
    a1 = a1  a2 = a2
    Aides = {a1, a2}
    Lists <- AideComesAndGoes
    Conns = {1, 2, 3}
    None = None
    QueueCap = 2
    MaxPackets = 3
    MaxLosses = 2
    MaxChanges = 1
INVARIANTS TypeOK OneLossMore NoneLeftOpen
PROPERTIES ReaderComes
CHECK_DEADLOCK FALSE
