\* Does a stop withdraw the pending action of every capability?
SPECIFICATION PlanSpec
CONSTANTS
    Characters = {c1}
    Generations = {g1}
    NoGeneration = none
    Rooms = {r1}
    NoRoom = nowhere
    Kinds = {"supervised"}
    MaxActions = 1
    MaxLifetime = 1
    Horizon = 2
    OperationKinds = {"plain"}
    MaxOperations = 1
    HistoryLimit = 2
    MaxControls = 1
INVARIANTS
    StopRevokesOwnedWork
