\* slot_propagation: every small workflow, every tasks_inputs of one or two
\* sub-tasks, every produce call.
CONSTANTS
    u = u
    v = v
    x = x
    None = None
    Nodes = {u, v, x}
    Batch = {u, v}
    MaxSubs = 2
    Workflows <- MCWorkflows
    TasksInputs <- MCTasksInputs
SPECIFICATION Spec
INVARIANTS
    TypeOK
    OutputIdsFresh
    ProduceMatchesSpec
\* A workflow is finished once every parent is parsed and published.
CHECK_DEADLOCK FALSE
