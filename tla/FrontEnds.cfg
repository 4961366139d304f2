SPECIFICATION Spec
CONSTANTS
    w1 = w1  w2 = w2
    Writers = {w1, w2}
    Base = 4
    Digits = 3
    MaxArgs = 8
    MaxTotal = 30
    HashTypeLen = 3
    Unhex <- HexPairs
    Base64 <- FourDigits
    Unbase64 <- ThreeBytes
    Sha <- ShortSha
    Messages <- SomeMessages
    Scripts <- SomeScripts
    HadLookup <- SHad
    LookupProps <- SProps
    Anonymous <- SAnonymous
    Api1 <- SApi1
    Nonc <- SNonc
    BracketPing <- SPing
    LookupKey <- SLookup
    LookupWord <- SLookupWord
    GoodTokens <- SGood
    ErrorKey <- SError
    IsGuru = FALSE
    TokenKey <- SToken
INVARIANTS TypeOK ReadsAreTrue ExactUnlessRaced FramesInOrder SubscriptionsAgree
CHECK_DEADLOCK FALSE
