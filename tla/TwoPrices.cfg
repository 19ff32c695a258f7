CONSTANTS
    c1 = c1
    c2 = c2
    p1 = p1
    p2 = p2
    NoPayment = NoPayment
    Calls <- TwoCalls
    Payments <- OnePayment
    Requests = {"ORDER", "CHECKOUT", "RETRY"}
    World = {"STALE_QUOTE"}
    MaxAttempts = 2
    MaxRows = 2
    MaxQuotes = 2
SPECIFICATION Spec
INVARIANTS
    PayableAtActivePrice
CHECK_DEADLOCK FALSE
