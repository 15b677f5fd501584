\* Two tables redacted by concurrent statements, then redacted again or unmasked.
CONSTANTS
    NULL = NULL
    None = None
    t1 = t1
    t2 = t2
    At = "@"
    Star = "*"
    EmptyKey = 0
    MIN_DOMAIN = 8
    PAN_LEN = 4
    KEEP = 2
    Bytes <- DashOfThree
    Char <- SmallChar
    DIGITS <- SmallDIGITS
    ALNUM <- SmallALNUM
    Ff1 <- ToyFf1
    Hmac <- ToyHmac
    Requests = {}
    Connections = {t1, t2}
    Originals <- RedactColumns
    Names <- RedactNames
    Keys = {1}
    Calls <- RedactCalls
    MaxLayers = 2
    FollowLost = TRUE
\* Clients may stop: a redaction is never undone.
CHECK_DEADLOCK FALSE
SYMMETRY Exchange
SPECIFICATION ColumnsSpec
INVARIANTS
    ShapeKept
    Onion
    RedactionHides
PROPERTIES
    StarsStay
