\* Every valid two-node workflow with up to two batch strategies per node.
\* Expansion runs once, after which the system stops.
CONSTANTS
    n1 = n1
    n2 = n2
    Nodes = {n1, n2}
    NodeOrder <- MCNodeOrder
    Slots = {i1}
    MaxInputs = 2
    FillCounts = {0, 2}
    MaxStrategies = 2
    None = None
    OnlyValidSpecs = TRUE
SPECIFICATION Spec
CHECK_DEADLOCK FALSE
INVARIANTS
    ExpansionMatchesSpec
