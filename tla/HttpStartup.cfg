\* The http transport when nothing goes wrong.
CONSTANTS
    Tests = {"fpe", "mask"}
    Transports = {"http"}
    ReusedStage = {}
    POLLS = 3
    ATTEMPTS = 3
SPECIFICATION Spec
INVARIANTS
    HttpHealthyIsGreen
