SPECIFICATION Spec
CONSTANTS
    k1 = k1  k2 = k2
    Names = {n1}
    Keys = {k1, k2}
    NoKey = nokey
    NoRecord = norecord
    Subscribers = {s1}
    Kinds = {"reserve", "delete", "set", "bulk", "replace", "get", "details", "exists", "info"}
    Allowances = {1, 2}
    InCap = 2
    MaxCommands = 3
    MaxEntries = 2
    MaxRestarts = 1
INVARIANTS TypeOK OwnersOptions CacheAgrees
PROPERTIES AnsweredOnce OwnerKept
SYMMETRY KeySymmetry
CHECK_DEADLOCK FALSE
