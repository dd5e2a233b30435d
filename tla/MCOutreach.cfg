SPECIFICATION Spec
CONSTANTS
    Lead = {1, 2}
    VentureOf <- MCVentureOf
    IdentityOf <- MCIdentityOf
    Answer = {"sale", "not_interested"}
    MaxRuns = 2
    DayCap = 1
    IdentityCap = 1
    MaxWaitingApproval = 2
    MaxWaitingResult = 2
    MaxDays = 2
    MaxCrashes = 1
CONSTRAINT LittleActivity
CHECK_DEADLOCK FALSE
INVARIANTS
    SentIsApproved
    AccountedOnce
    CapsHold
PROPERTIES
    RefusedIsLeftAlone
    OutcomeStands
