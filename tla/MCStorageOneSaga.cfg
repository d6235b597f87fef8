SPECIFICATION Spec
CONSTANTS
    Sagas = {s1}
    Actors = {a1}
    Keys = {k1, k2, k3, k4}
    OrganizationIds = {o1, o2}
    GrantIds = {g1, g2}
    MaxGrants = 2
    BatchLimit = 1
    NULL = NULL
SYMMETRY Symmetry
\* The system stops when no key is left and the saga has settled.
CHECK_DEADLOCK FALSE
INVARIANTS
    TypeOK
    StatusSummarizesEffects
    NoAutomaticReplay
    HeldInputsAreRecorded
    GrantsNeedOrganization
    CleanupCoversGrants
    ActivityCoversRevisions
PROPERTIES
    SettledEffectsAreFinal
    EveryChangeIsVersioned
