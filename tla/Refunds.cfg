CONSTANTS
    c1 = c1
    c2 = c2
    Calls <- TwoCalls
    MaxRefunds = 3
    World = {"CRASH", "REFUSED_POST", "LOST_ANSWER", "WINDOW", "SECOND_CAPTURE"}
SPECIFICATION FairSpec
INVARIANTS
    ReturnedOnce
    ProcessedMeansReturned
    FailedMeansNotReturned
PROPERTIES
    SettledStays
    ReturnedMoneyIsRecorded
CHECK_DEADLOCK FALSE
