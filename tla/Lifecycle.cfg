CONSTANTS
    c1 = c1
    c2 = c2
    NoKey = NoKey
    Callers <- MCCallers
    Commands <- MCCommands
    MaxHistory = 14
SPECIFICATION Spec
INVARIANTS
    HistoryExplainsStatus
    OperationAppliedOnce
    AuthorityFollowsQuote
    CaptureIsFinal
CHECK_DEADLOCK FALSE
