\* No faults; the driver may send a command while the node is being
\* dispatched.
CONSTANTS
    s = s
    a = a
    Nodes = {s, a}
    Kind <- MCKind
    Clusters = {c1, c2}
    Calls = {k1, k2, k3}
    Commands = {"Start", "Pause", "Continue", "Delete"}
    Faults = {}
    OperateAfterDispatch = FALSE
    None = None
SPECIFICATION Spec
INVARIANT CommandsReachTask
\* Every call returns and the driver has a bounded number of calls.
CHECK_DEADLOCK FALSE
