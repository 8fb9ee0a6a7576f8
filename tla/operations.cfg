\* One operation of every kind, with a control and a stop at any point, and an
\* outing followed by an outing or a travel that evicts it from the history.
SPECIFICATION FairPlanSpec
CONSTANTS
    Characters = {c1}
    Generations = {g1}
    NoGeneration = none
    Rooms = {r1}
    NoRoom = nowhere
    Kinds = {"inspection", "travel", "test", "controlled", "refuge", "control", "supervised"}
    MaxActions = 2
    MaxLifetime = 1
    Horizon = 2
    OperationKinds = {"recon", "travel", "test", "controlled", "refuge", "plain"}
    MaxOperations = 2
    HistoryLimit = 1
    MaxControls = 1
INVARIANTS
    EndOwnsNothing
    StoppedNeverSucceeds
    StopReachesAction
PROPERTY
    OperationsEnd
