CONSTANTS
    c1 = c1
    c2 = c2
    p1 = p1
    p2 = p2
    p3 = p3
    Calls <- TwoCalls
    Purchases <- ThreePurchases
    Quantity <- Quantities
    OnHand = 2
    OtherMoves <- FailAndCancel
    MaxRows = 3
SPECIFICATION Spec
INVARIANTS
    CounterMatchesHolds
    NeverOversold
    UnitsConserved
    PaidStockIsSold
PROPERTIES
    HoldsEndOnce
CHECK_DEADLOCK FALSE
SYMMETRY CallSymmetry
