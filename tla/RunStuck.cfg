SPECIFICATION Spec
CONSTANTS
    Experiment = {1, 2, 3}
    First = {1, 2}
    Executor <- MCExecutor
    Cost <- MCCost
    TypeOf <- MCTypeOf
    Gated = {2}
    Config <- MCUnlinked
    DeskResult <- MCDeskResult
    GatewayResult <- MCGatewayResult
    MaxResults = 3
    MaxCrashes = 1
PROPERTY RunsResume
