SPECIFICATION Spec
CONSTANTS
    Process = {timer, hand}
    timer = timer
    hand = hand
    Timer = timer
    Content <- MCContent
    Code <- MCCode
    Baseline = "old"
    Response <- MCResponse
    MaxProposals = 2
    MaxMishaps = 3
    Priority <- MCPriority
    BaseDelay <- MCBaseDelay
    MaxDelay <- MCMaxDelay
    Situation <- MCSituation
    Advances <- MCAdvances
    MaxRounds = 2
    MaxNoops = 3
    MaxDisturbances = 1
    MinResolved = 2
    MaxResolved = 2
    MaxAssigned = 2
    Kind = {"sale", "no_response"}
    Reach <- MCReach
    Portion <- MCPortion
    ScaleSample = 2
    PauseSample = 4
    KillSample = 5
    Past <- MCPast
    MaxLeads = 1
    MaxPool = 3
    MaxUpsets = 1
INVARIANT IntegratedAsEvaluated
PROPERTIES ChangesAreApproved IdleOnesYield EvidenceTakesHold TestsStayFair
CHECK_DEADLOCK FALSE
