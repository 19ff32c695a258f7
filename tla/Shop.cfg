CONSTANTS
    mouse = mouse
    wired = wired
    d1 = d1
    d2 = d2
    Products <- TwoProducts
    Facts <- CheapDearOrGone
    Kind <- AllMice
    Feature <- OneWired
    WordSets <- SomeWords
    Intents <- SomeIntents
    ModelRequests <- AnyRequest
    Exact = 1024
    OverallBudget = 7
    AttemptTimeout = 5
    MinAttemptBudget = 1
    MaxAttempts = 3
    MaxIterations = 2
    Deciders <- TwoDeciders
SPECIFICATION FairSpec
INVARIANTS
    AgentWithinBudget
    QuoteKeepsTheWords
PROPERTIES
    SubstitutedOnlyForStock
    AgentAnswers
CHECK_DEADLOCK FALSE
