CONSTANTS
    c1 = c1
    c2 = c2
    p1 = p1
    p2 = p2
    NoPayment = NoPayment
    Calls <- TwoCalls
    Payments <- OnePayment
    Requests = {"ORDER", "CHECKOUT", "CALLBACK", "STATUS", "RETRY"}
    World = {"CRASH", "LAPSED_HOLD", "LOST_ANSWER", "REFUSED_POST"}
    MaxAttempts = 2
    MaxRows = 3
    MaxQuotes = 1
SPECIFICATION FairSpec
INVARIANTS
    OrdersMatchClaims
    AnnouncedOrderIsStored
    AttemptLimit
    ShownMoneyIsMoney
PROPERTIES
    NoOrderAfterCapture
    CapturedMoneySettles
    SaleKept
    CapturedLineStays
CHECK_DEADLOCK FALSE
