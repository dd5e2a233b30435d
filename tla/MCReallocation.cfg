SPECIFICATION ReallocSpec
CONSTANTS
    v1 = v1  v2 = v2  k1 = k1  c1 = c1  c2 = c2
    Venture = {v1, v2}
    Key = {k1}
    Client = {c1, c2}
    MaxPlans = 3
    PlanContent <- MCPlanContent
    CashInput = {1, 2}
    None = None
    Inputs <- MCInputs
    MayFollow <- Onward
    Grant <- MCGrant
    MaxCrashes = 1
    MaxRows = 2
    MaxLooseRows = 1
CHECK_DEADLOCK FALSE
INVARIANTS
    ReallocTypeOK
    ConservedUnderLease
    PlanRemains
PROPERTIES
    Spec
    PlansFollowInputs
