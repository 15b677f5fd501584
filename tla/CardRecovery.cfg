\* A card number with a wrong check digit, masked and unmasked.
CONSTANTS
    NULL = NULL
    None = None
    t1 = t1
    t2 = t2
    At = "@"
    Star = "*"
    EmptyKey = 0
    MIN_DOMAIN = 1000000
    PAN_LEN = 16
    KEEP = 4
    Bytes <- DashOfThree
    Char <- RealChar
    DIGITS <- RealDIGITS
    ALNUM <- RealALNUM
    Ff1 <- ToyFf1
    Hmac <- ToyHmac
    Requests = {}
    Connections = {t1}
    Originals <- WrongCheckDigit
    Names <- CardFormat
    Keys = {1}
    Calls <- FpeCalls
    MaxLayers = 1
    FollowLost = TRUE
SPECIFICATION ColumnsSpec
INVARIANT
    ExactRecovery
