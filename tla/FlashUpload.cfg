\* Two concurrent flash-upload attempts, two stored metas, failing collaborators.
CONSTANTS
    Metas = {n1}
    StoredMetas = {s1, s2}
    Users = {u1}
    NoUser = NoUser
    Callers = {c1, c2}
    None = None
    CollaboratorsFail = TRUE
SPECIFICATION Spec
SYMMETRY MCSymmetry
INVARIANTS
    TypeOK
    FlashSignalBacked
