SPECIFICATION Spec
CONSTANTS
    Sagas = {s1}
    Actors = {a1}
    Keys = {k1, k2, k3}
    OrganizationIds = {o1}
    GrantIds = {g1}
    MaxGrants = 1
    BatchLimit = 1
    NULL = NULL
SYMMETRY Symmetry
CHECK_DEADLOCK FALSE
PROPERTIES
    ConfirmNotAppliedLeadsToPending
