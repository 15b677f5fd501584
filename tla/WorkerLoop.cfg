\* The loop: two connections, batches of up to three rows.
CONSTANTS
    NULL = NULL
    None = None
    c1 = c1
    c2 = c2
    At = "@"
    Star = "*"
    EmptyKey = 0
    MIN_DOMAIN = 8
    PAN_LEN = 4
    KEEP = 2
    Bytes <- DashOfThree
    Char <- SmallChar
    DIGITS <- SmallDIGITS
    ALNUM <- SmallALNUM
    Ff1 <- ToyFf1
    Hmac <- ToyHmac
    Connections = {c1, c2}
    Requests <- LoopRequests
SPECIFICATION FairSpec
INVARIANTS
    TypeOK
    OneCellPerRow
PROPERTIES
    ImplementsBatch
    Answered
