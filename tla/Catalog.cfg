\* A linter and an agent; the code's own alphabets and numbers.
CONSTANTS
    NULL = NULL
    None = None
    At = "@"
    Star = "*"
    EmptyKey <- EmptyWord
    MIN_DOMAIN = 1000000
    PAN_LEN = 16
    KEEP = 4
    Bytes <- DashOfThree
    Char <- RealChar
    DIGITS <- RealDIGITS
    ALNUM <- RealALNUM
    Ff1 <- WordFf1
    Hmac <- WordHmac
    Linters = {"linter"}
    Connections = {"linter", "agent"}
    Requests = {}
    Text <- Chars
    Texts <- AgentTexts
SPECIFICATION CatalogSpec
INVARIANTS
    CatalogTypeOK
    NothingRefused
    NamesMeanWhatTheySay
    AsPublished
    GradersAgree
