\* Two tables masked by concurrent statements.
CONSTANTS
    NULL = NULL
    None = None
    t1 = t1
    t2 = t2
    At = "@"
    Star = "*"
    EmptyKey = 0
    MIN_DOMAIN = 8
    PAN_LEN = 4
    KEEP = 2
    Bytes <- DashOfThree
    Char <- SmallChar
    DIGITS <- SmallDIGITS
    ALNUM <- SmallALNUM
    Ff1 <- ToyFf1
    Hmac <- ToyHmac
    Requests = {}
    Connections = {t1, t2}
    Originals <- JoinColumns
    Names <- JoinFormats
    Keys = {1}
    Calls <- FpeCalls
    MaxLayers = 2
    FollowLost = FALSE
\* Clients may stop: the bound FollowLost ends a behaviour.
CHECK_DEADLOCK FALSE
SYMMETRY Exchange
SPECIFICATION ColumnsSpec
INVARIANTS
    Joinable
