SPECIFICATION Spec
CONSTANTS
    v1 = v1  v2 = v2  k1 = k1  k2 = k2  c1 = c1  c2 = c2
    Venture = {v1, v2}
    Key = {k1, k2}
    Client = {c1, c2}
    MaxPlans = 2
    PlanContent <- MCPlanContent
    CashInput = {1, 2}
    None = None
CONSTRAINT LittleActivity
SYMMETRY Symmetric
CHECK_DEADLOCK FALSE
INVARIANTS
    TypeOK
    CommitmentsCovered
    OpenOnlyWhileActive
    LedgerConserved
    OneActivePlan
    PlanWithinBudget
PROPERTIES
    ClosedStaysClosed
    ResolvedOnce
