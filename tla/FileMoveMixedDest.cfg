\* One meta registered for a Snapshot and a StorageServer destination.
CONSTANTS
    Moves = {m1, m2}
    Metas = {a}
    Users = {u1}
    NoUser = NoUser
    RegUsers = {u1}
    Callers = {c1}
    None = None
    SingleDestinationPerMeta = FALSE
    RegisterBeforeCompletion = TRUE
    CollaboratorsFail = FALSE
SPECIFICATION Spec
INVARIANTS
    StorageMoveKeptUntilCalledBack
