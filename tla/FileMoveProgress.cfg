\* Without collaborator failures, with every registration carrying a user and
\* made before its meta completes: no move is lost and each one read is performed.
CONSTANTS
    Moves = {m1, m2}
    Metas = {a, b}
    Users = {u1}
    NoUser = NoUser
    RegUsers = {u1}
    Callers = {c1, c2}
    None = None
    SingleDestinationPerMeta = TRUE
    RegisterBeforeCompletion = TRUE
    CollaboratorsFail = FALSE
SPECIFICATION Spec
INVARIANTS
    MoveNotLost
PROPERTIES
    ReadMoveEventuallyPerformed
