CONSTANTS
    c1 = c1
    c2 = c2
    Calls <- TwoCalls
    MaxRefunds = 1
    World = {"EARLY_CHECK"}
SPECIFICATION Spec
INVARIANTS
    FailedMeansNotReturned
CHECK_DEADLOCK FALSE
