SPECIFICATION MutationsSpec
CONSTANTS
    Sagas = {s1}
    Actors = {a1, a2}
    Keys = {k1, k2, k3}
    OrganizationIds = {o1}
    GrantIds = {}
    MaxGrants = 0
    BatchLimit = 1
    Clients = {c1, c2}
    NULL = NULL
SYMMETRY Symmetry
CONSTRAINT FewRevisions
INVARIANTS
    VerdictsAreExact
    NoWaitCycle
    AnswersOfAKeyAgree
    ViewsAreSafeToActOn
PROPERTIES
    CommittedCommandsAreReplayed
