SPECIFICATION Spec
CONSTANTS
    Process = {p, q}
    p = p
    q = q
    Capability = {"draft", "check", "send"}
    Agent = {"draft", "send"}
    Unknown = "unknown"
    Proposal <- MCProposal
    MaxSnapshot = 2
    MaxRows = 4
    MaxModelCalls = 3
    MaxTurns = 2
    MaxAgentSteps = 2
    MaxOutputs = 4
    Job = {1, 2}
INVARIANTS RunHangsTogether CeilingHolds
PROPERTIES ReceiptStands
SYMMETRY Symmetry
