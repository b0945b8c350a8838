SPECIFICATION MCSpec
CONSTANTS
    lobby = lobby
    offers = offers
    dotdot = dotdot
    None = None
    Rooms = {lobby, offers}
    BadNames = {dotdot}
    Records <- MCRecords
    Explicit <- MCExplicit
    MaxRooms = 1
    Window = 1
    Retained = 2
    MaxPosts = 3
    MaxNow = 2
    k1 = k1
    k2 = k2
    k3 = k3
    r1 = r1
    r2 = r2
    r3 = r3
    Module = Module
    Requests = {r1, r2, r3}
    Keys = {k1, k2, k3}
    MAX_CACHE_SIZE = 2
    Held <- MCHeld
    CACHE_TTL = 1
    MaxClock = 1
INVARIANTS
    TypesOK
    AnswersFresh
    NearlyBounded
    AloneAnswered
PROPERTIES
    StatusIsOfTheEnd
    Ends
CHECK_DEADLOCK FALSE
