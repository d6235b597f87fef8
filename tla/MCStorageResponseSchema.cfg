SPECIFICATION Spec
CONSTANTS
    Sagas = {s1}
    Actors = {a1}
    Keys = {k1, k2}
    OrganizationIds = {o1}
    GrantIds = {g1}
    MaxGrants = 33
    BatchLimit = 1
    NULL = NULL
SYMMETRY Symmetry
CHECK_DEADLOCK FALSE
\* Only runs in which every provider call succeeds.
CONSTRAINT AllSucceed
INVARIANTS
    StepsFitResponseSchema
