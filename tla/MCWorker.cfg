SPECIFICATION WorkerSpec
CONSTANTS
    Sagas = {s1, s2}
    Actors = {a1}
    Keys = {k1, k2}
    OrganizationIds = {o1}
    GrantIds = {g1}
    MaxGrants = 1
    BatchLimit = 2
    Workers = {w1, w2}
    MaxMishaps = 1
    NULL = NULL
INVARIANTS
    CountersMatchLog
    BoundedOvertaking
PROPERTIES
    DueSagasComeToRest
