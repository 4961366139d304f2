SPECIFICATION FairSpec
CONSTANTS
    g1 = g1  g2 = g2  t1 = t1  t2 = t2
    Gurus = {g1, g2}
    Topics = {t1, t2}
    Lists <- GrowAndShrink
    Place <- SecondMoves
    MaxChannels = 3
    MaxChanges = 1
    MaxOps = 1
    MaxLosses = 1
INVARIANTS TypeOK RouterAgrees
PROPERTIES EventuallyCovered
CHECK_DEADLOCK FALSE
