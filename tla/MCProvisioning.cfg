SPECIFICATION ProvisioningSpec
CONSTANTS
    Sagas = {s1}
    Actors = {a1}
    Keys = {k1, k2, k3}
    OrganizationIds = {o1, o2}
    GrantIds = {g1, g2, g3}
    MaxGrants = 2
    BatchLimit = 1
    NULL = NULL
SYMMETRY Symmetry
\* The system stops when no key is left and the saga has settled.
CHECK_DEADLOCK FALSE
INVARIANTS
    RecordedOrganizationIsTheOnlyOne
    CompletedMeansProvided
    NoGrantOutlivesCleanup
    ResidueIsKnown
PROPERTIES
    ImplementsStorage
