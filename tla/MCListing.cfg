SPECIFICATION ListingSpec
CONSTANTS
    Sagas = {1, 2, 3}
    MaxGrants = 0
    Actors = {"a1", "a2"}
    Filters = {"any", "pending"}
    Limits = {1, 2}
    LastTick = 2
CONSTRAINT FewMoves
INVARIANTS
    PagesDescend
    NothingOwedIsSkipped
