\* compile_validated: manifests package_validate accepts, compiled for node
\* specs whose slots are bound.  Each compilation ends (Done, Panic or
\* Err), after which the system stops.
CONSTANTS
    a1 = a1  a2 = a2  e1 = e1  K = K  t1 = t1  t2 = t2  k1 = k1  m1 = m1
    mo = mo  c1 = c1  c2 = c2  s1 = s1  s2 = s2  o1 = o1  o2 = o2  i1 = i1
    i2 = i2  f1 = f1  r1 = r1  r2 = r2
    ArgDescs = {a1, a2}
    EnvDescs = {e1}
    EnvKeys = {K}
    TDescs = {t1, t2}
    TKeys = {k1}
    InMats = {m1}
    OutMats = {mo}
    Collectors = {c1, c2}
    SlotDescs = {s1, s2}
    OutDescs = {o1, o2}
    OutIds = {i1, i2}
    Words = {"n", "x", "w", "a", "in", "out", "log"}
    None = None
    Runs = {r1}
    Usecases <- PassUsecases
    NodeSpecsFor <- PassNodeSpecs
    ValidatedOnly = TRUE
SPECIFICATION Spec
CHECK_DEADLOCK FALSE
INVARIANTS
    TaskBodyShape
    ArgumentsRenderedBySpec
    TemplateRenderedBySpec
