SPECIFICATION Spec
CONSTANTS
    Sagas = {s1, s2}
    Actors = {a1}
    Keys = {k1, k2, k3}
    OrganizationIds = {o1}
    GrantIds = {g1}
    MaxGrants = 2
    BatchLimit = 2
    NULL = NULL
SYMMETRY Symmetry
\* The system stops when no key is left and both sagas have settled.
CHECK_DEADLOCK FALSE
INVARIANTS
    SagasConsistent
PROPERTIES
    ImplementsLifecycle
