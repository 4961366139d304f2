SPECIFICATION FairSpec
CONSTANTS
    c1 = c1  c2 = c2
    Calls = {c1, c2}
    LongCalls = {c2}
    Sub = sub
    NoReply = noreply
    Flavours = {TRUE, FALSE}
    PacketsCap = 1
    OutCap = 2
    MaxAnswers = 2
    MaxBreaks = 1
INVARIANTS TypeOK
PROPERTIES ImplementsRpc KeysFreed Resubscribed
CHECK_DEADLOCK FALSE
