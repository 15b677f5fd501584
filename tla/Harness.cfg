\* Every transport; the log of an earlier run may be there with unix sockets.
CONSTANTS
    Tests = {"fpe", "mask"}
    Transports = {"subprocess", "http", "url", "unix", "other"}
    ReusedStage = {"unix"}
    POLLS = 3
    ATTEMPTS = 3
SPECIFICATION FairSpec
INVARIANTS
    TypeOK
    GreenMeansTested
    GateHolds
    NothingLeft
    HealthyIsGreen
PROPERTIES
    Ends
