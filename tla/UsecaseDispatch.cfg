\* Every await may fail before it takes effect; the driver commands only
\* dispatched nodes.
CONSTANTS
    s = s
    a = a
    Nodes = {s, a}
    Kind <- MCKind
    Clusters = {c1, c2}
    Calls = {k1, k2, k3, k4}
    Commands = {"Start", "Pause", "Continue", "Delete"}
    Faults = {"Err"}
    OperateAfterDispatch = TRUE
    None = None
SPECIFICATION Spec
INVARIANTS CommandsReachTask RecordedClusterHoldsTask
PROPERTY DispatchRefines
\* Every call returns and the driver has a bounded number of calls.
CHECK_DEADLOCK FALSE
