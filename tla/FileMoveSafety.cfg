\* Safety of the registry with one destination kind per meta, registrations
\* made before the meta's upload completes, and collaborator failures.
CONSTANTS
    Moves = {m1, m2, m3}
    Metas = {a}
    Users = {u1}
    NoUser = NoUser
    RegUsers <- MCRegUsersAny
    Callers = {c1, c2}
    None = None
    SingleDestinationPerMeta = TRUE
    RegisterBeforeCompletion = TRUE
    CollaboratorsFail = TRUE
SPECIFICATION Spec
SYMMETRY MCSymmetry
INVARIANTS
    TypeOK
    SnapshotRemovalAfterCreate
