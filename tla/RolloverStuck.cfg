SPECIFICATION ReallocSpec
CONSTANTS
    v1 = v1  v2 = v2  k1 = k1  c1 = c1  c2 = c2
    Venture = {v1, v2}
    Key = {k1}
    Client = {c1}
    MaxPlans = 4
    PlanContent <- MCPlanContent
    CashInput = {1}
    None = None
    Inputs <- MCInputs
    MayFollow <- BackAndForth
    Grant <- MCGrant
    MaxCrashes = 0
    MaxRows = 2
    MaxLooseRows = 1
CHECK_DEADLOCK FALSE
PROPERTY PlansFollowInputs
