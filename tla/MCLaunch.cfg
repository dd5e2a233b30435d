SPECIFICATION Spec
CONSTANTS
    Process = {tick, cmd}
    Operator = cmd
    tick = tick
    cmd = cmd
    MaxPayments = 1
    Bundle <- MCBundle
    Output <- MCOutput
    PlannedTemplate = {"python_service"}
    MaxFailures = 1
    MaxSpecs = 1
    MaxRuns = 2
    MaxAttempts = 2
    MaxIncidents = 1
INVARIANT SoldAsBound
PROPERTIES GatesHold ApprovedIsLaunched
