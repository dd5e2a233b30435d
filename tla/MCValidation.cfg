SPECIFICATION Spec
CONSTANTS
    Experiment = {1, 2, 3}
    First = {1, 2}
    Executor <- MCExecutor
    Cost <- MCCost
    TypeOf <- MCTypeOf
    Gated = {2}
    Config <- MCConfig
    DeskResult <- MCDeskResult
    GatewayResult <- MCGatewayResult
    MaxResults = 3
    MaxCrashes = 2
INVARIANTS
    DispatchedIsApproved
    OutstandingIsFunded
    ReleasedIsUnanswered
    CountedOnce
    ChargedAsReported
PROPERTIES
    VerdictStands
    EvidenceIsJudged
