SPECIFICATION LockSpec
CONSTANTS
    Sagas = {s1}
    Actors = {a1}
    Keys = {k1, k2}
    OrganizationIds = {o1}
    GrantIds = {g1}
    MaxGrants = 1
    BatchLimit = 1
    Connections = {c1, c2}
    NULL = NULL
SYMMETRY Symmetry
INVARIANTS
    ClaimFindsEffect
PROPERTIES
    TransactionsAreAtomic
