\* Two Snapshot registrations of one meta; a collaborator call may fail and
\* the caller retries do_registered_moves.
CONSTANTS
    Moves = {m1, m2}
    Metas = {a}
    Users = {u1}
    NoUser = NoUser
    RegUsers = {u1}
    Callers = {c1}
    None = None
    SingleDestinationPerMeta = TRUE
    RegisterBeforeCompletion = TRUE
    CollaboratorsFail = TRUE
SPECIFICATION Spec
INVARIANTS
    MoveNotLost
