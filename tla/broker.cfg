\* Two actions of one character through two sessions.
SPECIFICATION FairSpec
CONSTANTS
    Characters = {c1}
    Generations = {g1, g2}
    NoGeneration = none
    Rooms = {r1, r2}
    NoRoom = nowhere
    Kinds = {"test", "refuge"}
    MaxActions = 2
    MaxLifetime = 1
    Horizon = 1
INVARIANTS
    TypeOK
    PendingAuthorized
    LaunchedStopsWithAuthority
    ConsentBindsRoom
PROPERTIES
    
    ImplementsLifecycle
    PendingResolves
