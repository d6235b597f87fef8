SPECIFICATION Spec
CONSTANTS
    Sagas = {s1, s2}
    Actors = {a1, a2}
    Keys = {k1, k2, k3, k4}
    OrganizationIds = {o1}
    GrantIds = {g1}
    MaxGrants = 1
    BatchLimit = 2
    NULL = NULL
SYMMETRY Symmetry
\* The system stops when no key is left and both sagas have settled.
CHECK_DEADLOCK FALSE
INVARIANTS
    OneFenceHolder
    CommandsAreSerialized
    LedgerMatchesActivity
    HasMoreIsExact
