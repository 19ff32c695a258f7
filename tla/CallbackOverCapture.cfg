CONSTANTS
    c1 = c1
    c2 = c2
    p1 = p1
    p2 = p2
    NoPayment = NoPayment
    Calls <- TwoCalls
    Payments <- TwoPayments
    Requests = {"ORDER", "CHECKOUT", "CALLBACK", "STATUS"}
    World = {"CRASH", "LAPSED_HOLD"}
    MaxAttempts = 3
    MaxRows = 1
    MaxQuotes = 1
SPECIFICATION Spec
PROPERTIES
    CapturedStays
CHECK_DEADLOCK FALSE
