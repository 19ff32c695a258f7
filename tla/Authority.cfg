CONSTANTS
    c1 = c1
    c2 = c2
    Calls <- TwoCalls
    Quantity = 2
    ShopperAuthority <- BudgetOfThree
    Products <- CheapOrDear
    PolicyTerms <- AutoAndAsk
    OtherMoves <- ReserveThenFail
    MaxQuotes = 2
    MaxProductVersions = 2
    MaxPolicies = 2
    MaxApprovals = 2
    MaxEvaluations = 2
SPECIFICATION Spec
INVARIANTS
    QuotesAreSound
    AnswerIsJustified
    RejectionIsFinal
    WaitingLineIsTrue
CHECK_DEADLOCK FALSE
SYMMETRY CallSymmetry
