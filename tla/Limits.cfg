CONSTANTS
    a = a
    b = b
    Clients <- TwoClients
    Callers <- BuyersAndPayer
    AgentPerMinute = 2
    AgentPerDay = 2
    AgentGlobalPerDay = 2
    PaymentPerMinute = 1
    MinutesPerDay = 2
    Patience = 1
    MaxRequests = 3
    Times <- Minutes
SPECIFICATION Spec
INVARIANTS
    RowsCountRequests
    CeilingsHold
CHECK_DEADLOCK FALSE
