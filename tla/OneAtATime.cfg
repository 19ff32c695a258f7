CONSTANTS
    c1 = c1
    c2 = c2
    p1 = p1
    p2 = p2
    NoPayment = NoPayment
    Calls <- OneCall
    Payments <- TwoPayments
    Requests = {"ORDER", "CHECKOUT", "CALLBACK", "STATUS", "RETRY"}
    World = {"CRASH", "REFUSED_POST", "LOST_ANSWER", "LATE_POST", "LAPSED_HOLD", "STALE_QUOTE", "POLICY"}
    MaxAttempts = 3
    MaxRows = 3
    MaxQuotes = 1
SPECIFICATION LoadSpec
SYMMETRY PaymentSymmetry
INVARIANTS
    OrdersMatchClaims
    AttemptsTellTheMoney
    OneLiveAttempt
    DoubleCaptureFlagged
    PageIsConsistent
PROPERTIES
    ClaimsOnlyAfterFailure
CHECK_DEADLOCK FALSE
