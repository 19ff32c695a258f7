CONSTANTS
    c1 = c1
    c2 = c2
    p1 = p1
    p2 = p2
    NoPayment = NoPayment
    Calls <- OneCall
    Payments <- TwoPayments
    Requests = {"ORDER", "CHECKOUT", "RETRY", "RESERVE"}
    World = {"CRASH", "STALE_QUOTE", "LAPSED_HOLD", "POLICY", "LOST_ANSWER", "LATE_POST"}
    MaxAttempts = 2
    MaxRows = 3
    MaxQuotes = 2
SPECIFICATION Spec
SYMMETRY PaymentSymmetry
INVARIANTS
    PayOfferIsHonoured
PROPERTIES
    SaleKept
CHECK_DEADLOCK FALSE
