SPECIFICATION LockSpec
CONSTANTS
    Sagas = {s1, s2}
    Actors = {a1}
    Keys = {k1, k2}
    OrganizationIds = {o1}
    GrantIds = {g1}
    MaxGrants = 0
    BatchLimit = 2
    Connections = {c1, c2}
    NULL = NULL
SYMMETRY Symmetry
PROPERTIES
    TransactionsAreAtomic
