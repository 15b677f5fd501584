\* The code's own alphabets and numbers, on the values its tests use and their neighbours.
CONSTANTS
    NULL = NULL
    None = None
    t1 = t1
    t2 = t2
    At = "@"
    Star = "*"
    EmptyKey = 0
    MIN_DOMAIN = 1000000
    PAN_LEN = 16
    KEEP = 4
    Bytes <- DashOfThree
    Char <- RealChar
    DIGITS <- RealDIGITS
    ALNUM <- RealALNUM
    Ff1 <- ToyFf1
    Hmac <- ToyHmac
    Requests = {}
    Connections = {t1}
    Originals <- RealColumns
    Names <- RealFormats
    Keys = {1}
    Calls <- FpeCalls
    MaxLayers = 2
    FollowLost = FALSE
\* Clients may stop: the bound FollowLost ends a behaviour.
CHECK_DEADLOCK FALSE
SPECIFICATION ColumnsSpec
INVARIANTS
    NeverRefused
    Unwound
PROPERTIES
    CardAnswersLuhn
