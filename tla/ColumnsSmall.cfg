\* Every small value under every pair of layers.
CONSTANTS
    NULL = NULL
    None = None
    t1 = t1
    t2 = t2
    At = "@"
    Star = "*"
    EmptyKey = 0
    MIN_DOMAIN = 8
    PAN_LEN = 4
    KEEP = 2
    Bytes <- DashOfThree
    Char <- SmallChar
    DIGITS <- SmallDIGITS
    ALNUM <- SmallALNUM
    Ff1 <- ToyFf1
    Hmac <- ToyHmac
    Requests = {}
    Connections = {t1}
    Originals <- EveryColumn
    Names <- SmallFormats
    Keys = {1}
    Calls <- FpeCalls
    MaxLayers = 2
    FollowLost = TRUE
SPECIFICATION ColumnsSpec
INVARIANTS
    ColumnsTypeOK
    Onion
    ShapeKept
    ChangedOnlyInReach
PROPERTIES
    CardAnswersLuhn
